---- MODULE Spec2Model ----
(***************************************************************************)
(* lz4ultra: the LZ4 block decoder (src/src/expand.c) and the command line *)
(* drivers (src/unnamed/part_000).                                         *)
(*                                                                         *)
(* A memory buffer is the run of bytes written to it so far, from its      *)
(* lowest written index on: an index outside that run has never been       *)
(* written and holds whatever the allocator left there (the value `fill`). *)
(* Pointers are byte indexes relative to the start of their buffer.  Files *)
(* are sequences of bytes; files and buffers are stored in pages.          *)
(***************************************************************************)
EXTENDS Integers, Sequences, FiniteSets, TLC

VARIABLES
    dec,      \* the block decoder's state (SpecExpand)
    argv,     \* the command line, without argv[0]
    fs,       \* the file system: name -> [exists, data]
    pc,       \* where the process is
    main,     \* the locals of main
    comp,     \* the locals of lz4ultra_compress
    decomp,   \* the locals of lz4ultra_decompress
    compar,   \* the locals of lz4ultra_compare
    exit      \* the exit status of the process, -1 while it runs

vars == <<dec, argv, fs, pc, main, comp, decomp, compar, exit>>

Min(a, b) == IF a < b THEN a ELSE b
Max(a, b) == IF a > b THEN a ELSE b

\* the sequences over S of length at most n
SeqsUpTo(S, n) == UNION {[1..k -> S] : k \in 0..n}

(***************************************************************************)
(* format.h                                                                *)
(***************************************************************************)
LITERALS_RUN_LEN == 15
MATCH_RUN_LEN == 15
MIN_MATCH_SIZE == 4

(***************************************************************************)
(* Memory                                                                  *)
(***************************************************************************)
\* the values an allocated and never written byte may hold
HeapBytes == {0, 170}

\* Buffers and files are kept in pages of PageSize bytes: the sequence of
\* their bytes cut every PageSize bytes.
PageSize == 256

Pages(bytes) ==
    LET n == Len(bytes)
        np == (n + PageSize - 1) \div PageSize
    IN  SubSeq([p \in 1..np |->
                   SubSeq(bytes, (p - 1) * PageSize + 1, Min(p * PageSize, n))],
               1, np)

\* the number of bytes in pages pg, byte i of them, and all of them
PagedLen(pg) ==
    IF Len(pg) = 0 THEN 0 ELSE (Len(pg) - 1) * PageSize + Len(pg[Len(pg)])
PagedAt(pg, i) == pg[((i - 1) \div PageSize) + 1][((i - 1) % PageSize) + 1]
RECURSIVE PagesCat(_, _, _)
PagesCat(pg, i, j) ==
    IF i > j THEN << >>
    ELSE IF i = j THEN pg[i]
    ELSE PagesCat(pg, i, (i + j) \div 2) \o PagesCat(pg, ((i + j) \div 2) + 1, j)
Flat(pg) == PagesCat(pg, 1, Len(pg))

\* a buffer nothing has been written to
NoBytes == [lo |-> 0, bytes |-> << >>]

\* a buffer that holds the sequence bytes from index lo on
BytesAt(lo, bytes) == [lo |-> lo, bytes |-> Pages(bytes)]

\* the byte at index i of buffer m
MemRead(m, fill, i) ==
    IF i >= m.lo /\ i < m.lo + PagedLen(m.bytes) /\ PagedAt(m.bytes, i - m.lo + 1) >= 0
    THEN PagedAt(m.bytes, i - m.lo + 1)
    ELSE fill

\* the n bytes from index src on of the buffer that holds bytes from lo on
ReadFlat(lo, bytes, fill, src, n) ==
    IF src >= lo /\ src + n <= lo + Len(bytes)
          /\ \A k \in (src - lo + 1)..(src - lo + n) : bytes[k] >= 0
    THEN SubSeq(bytes, src - lo + 1, src - lo + n)
    ELSE [k \in 1..n |->
             IF src + k - 1 >= lo /\ src + k - 1 < lo + Len(bytes)
                   /\ bytes[src + k - lo] >= 0
             THEN bytes[src + k - lo]
             ELSE fill]

\* the n bytes of buffer m that start at index src
MemReadN(m, fill, src, n) ==
    IF n <= PageSize
    THEN [k \in 1..n |-> MemRead(m, fill, src + k - 1)]
    ELSE ReadFlat(m.lo, Flat(m.bytes), fill, src, n)

\* n bytes between two stores, which none of them has written
Gap(n) == [i \in 1..n |-> -1]

\* the bytes, from Min(lo, dst) on, of the buffer that holds old from lo on,
\* after the sequence bytes is stored from index dst on
WriteFlat(lo, old, dst, bytes) ==
    LET n == Len(bytes)
        hi == lo + Len(old)
    IN  (IF dst > lo THEN SubSeq(old, 1, Min(dst, hi) - lo) ELSE << >>)
        \o (IF dst > hi THEN Gap(dst - hi) ELSE << >>)
        \o bytes
        \o (IF dst + n < lo THEN Gap(lo - dst - n) ELSE << >>)
        \o (IF dst + n < hi
            THEN SubSeq(old, Max(dst + n, lo) - lo + 1, Len(old))
            ELSE << >>)

\* buffer m with the sequence bytes stored from index dst on
MemWrite(m, dst, bytes) ==
    IF Len(bytes) = 0 THEN m
    ELSE IF Len(m.bytes) = 0 THEN BytesAt(dst, bytes)
    ELSE BytesAt(Min(m.lo, dst), WriteFlat(m.lo, Flat(m.bytes), dst, bytes))

\* the n bytes that start at index p of the compressed block (0 past its end)
InReadN(inBlock, p, n) ==
    [k \in 1..n |-> IF p + k \in 1..Len(inBlock) THEN inBlock[p + k] ELSE 0]

(***************************************************************************)
(* The block decoder's state: the locals of                                *)
(* lz4ultra_decompressor_expand_block_lz4, and a record of what it did.    *)
(* inHi, wrLo, wrHi, srcLo and srcHi are the extent of the memory accesses *)
(* made so far (one past the highest input index read, the lowest and one  *)
(* past the highest output index written, the lowest and one past the      *)
(* highest output index read as a match source), offLo the lowest offset   *)
(* of the matches copied so far, 65536 when there is none.  tok describes  *)
(* the token decoded last, as far as its decoding got: where the output    *)
(* stood when it was read, its                                             *)
(* literal run, whether that run's length bytes ran into the block end     *)
(* (litCut), whether it has a match, the match's offset and length,        *)
(* whether the match length bytes ran into the block end (matchCut), and   *)
(* the number of bytes its match copy stored.  nDecoded is the sum of the  *)
(* literal and match lengths of the tokens decoded in full, nIter the      *)
(* number of iterations of the two loops that have begun.                  *)
(***************************************************************************)
pInBlockEnd(d) == d.nBlockSize
pInBlockFastEnd(d) == d.nBlockSize - 16
pOutDataEnd(d) == d.nOutDataOffset + d.nBlockMaxSize

\* a variant of the definition below: no room kept for the copies of 16 and
\* of 20 bytes
NoFastMargin(d) == pOutDataEnd(d)

pOutDataFastEnd(d) == pOutDataEnd(d) - 20

NoToken ==
    [pCur0 |-> 0, nLiterals |-> 0, litCut |-> FALSE, hasMatch |-> FALSE,
     nMatchOffset |-> 0, nMatchLen |-> 0, matchCut |-> FALSE, matchWr |-> 0]

\* memcpy(pCurOutData, pInBlock, n)
CopyLiterals(d, n) ==
    [d EXCEPT !.pOutData = MemWrite(@, d.pCurOutData, InReadN(d.inBlock, d.pInBlock, n)),
              !.inHi = Max(@, d.pInBlock + n),
              !.wrLo = Min(@, d.pCurOutData),
              !.wrHi = Max(@, d.pCurOutData + n)]

\* memcpy(pOutData + dst, pOutData + src, n): the source is read before any
\* byte is stored
CopyMatch(d, dst, src, n) ==
    [d EXCEPT !.pOutData = MemWrite(@, dst, MemReadN(@, d.fill, src, n)),
              !.srcLo = Min(@, src),
              !.srcHi = Max(@, src + n),
              !.wrLo = Min(@, dst),
              !.wrHi = Max(@, dst + n),
              !.tok.matchWr = @ + n]

\* a variant of the copy below: every source byte is read before any is stored
CopyMatchNoOverlap(d, dst, src, n) == CopyMatch(d, dst, src, n)

\* while (n--) pOutData[dst++] = pOutData[src++], four bytes at a time and then
\* one at a time: a byte stored by an earlier step is the one a later step
\* reads, so with dst - src = o > 0 byte i is the old byte src + (i mod o), and
\* with o = 0 every byte is stored onto itself
CopyMatchBytes(d, dst, src, n) ==
    LET o == dst - src
        bytes == [k \in 1..n |->
                    MemRead(d.pOutData, d.fill,
                            IF o > 0 THEN src + ((k - 1) % o) ELSE src + k - 1)]
    IN  IF n = 0 THEN d
        ELSE [d EXCEPT !.pOutData = MemWrite(@, dst, bytes),
                       !.srcLo = Min(@, src),
                       !.srcHi = Max(@, src + n),
                       !.wrLo = Min(@, dst),
                       !.wrHi = Max(@, dst + n),
                       !.tok.matchWr = @ + n]

\* a variant of the definition below: one byte is read and added
RunLengthOneByte(inBlock, p, n) ==
    IF p < Len(inBlock) THEN [p |-> p + 1, n |-> n + inBlock[p + 1], cut |-> FALSE]
    ELSE [p |-> p, n |-> n, cut |-> TRUE]

\* do { if (p < end) { nByte = *p++; n += nByte; } else break; } while (nByte == 255)
\* cut: the loop ended at the block end and not on a byte below 255
RunLength(inBlock, p, n) ==
    LET \* the number of bytes 255 from index p on
        k == CHOOSE j \in 0..Max(0, Len(inBlock) - p) :
                /\ \A i \in 1..j : inBlock[p + i] = 255
                /\ p + j >= Len(inBlock) \/ inBlock[p + j + 1] # 255
    IN  IF p + k < Len(inBlock)
        THEN [p |-> p + k + 1, n |-> n + 255 * k + inBlock[p + k + 1], cut |-> FALSE]
        ELSE [p |-> p + k, n |-> n + 255 * k, cut |-> TRUE]

\* the unchecked variants of the two tests below
NoOutputCheck(d, n) == TRUE
NoSourceCheck(pSrc) == TRUE

\* (pCurOutData + n) <= pOutDataEnd
OutputFits(d, n) == d.pCurOutData + n <= pOutDataEnd(d)

\* pSrc >= pOutData
SourceInBuffer(pSrc) == pSrc >= 0

\* return -1
Failed(d) == [d EXCEPT !.pc = "done", !.ret = -1]

lz4ultra_expand_literals_slow(d, nLiterals0) ==
    LET run == IF nLiterals0 = LITERALS_RUN_LEN
               THEN RunLength(d.inBlock, d.pInBlock, nLiterals0)
               ELSE [p |-> d.pInBlock, n |-> nLiterals0, cut |-> FALSE]
        nLiterals == run.n
        d1 == [d EXCEPT !.pInBlock = run.p, !.inHi = Max(@, run.p),
                        !.tok.nLiterals = nLiterals, !.tok.litCut = run.cut]
    IN  IF nLiterals # 0
        THEN IF d1.pInBlock + nLiterals <= pInBlockEnd(d1)
                /\ OutputFits(d1, nLiterals)
             THEN [CopyLiterals(d1, nLiterals) EXCEPT
                       !.pInBlock = @ + nLiterals,
                       !.pCurOutData = @ + nLiterals]
             ELSE Failed(d1)
        ELSE d1

\* do { memcpy(dst, src, 8); memcpy(dst + 8, src + 8, 8); src += 16; dst += 16; }
\* while (dst < end)
RECURSIVE CopyMatch16(_, _, _, _)
CopyMatch16(d, dst, src, end) ==
    LET d2 == CopyMatch(CopyMatch(d, dst, src, 8), dst + 8, src + 8, 8)
    IN  IF dst + 16 < end THEN CopyMatch16(d2, dst + 16, src + 16, end) ELSE d2

lz4ultra_expand_match_slow(d, pSrc, nMatchLen0) ==
    LET run == IF nMatchLen0 = MATCH_RUN_LEN
               THEN RunLength(d.inBlock, d.pInBlock, nMatchLen0)
               ELSE [p |-> d.pInBlock, n |-> nMatchLen0, cut |-> FALSE]
        nMatchLen == run.n + MIN_MATCH_SIZE
        d1 == [d EXCEPT !.pInBlock = run.p, !.inHi = Max(@, run.p),
                        !.tok.nMatchLen = nMatchLen, !.tok.matchCut = run.cut]
    IN  IF OutputFits(d1, nMatchLen)
        THEN IF d1.pCurOutData - pSrc >= 8
                /\ d1.pCurOutData + nMatchLen <= pOutDataFastEnd(d1)
             THEN [CopyMatch16(d1, d1.pCurOutData, pSrc, d1.pCurOutData + nMatchLen)
                     EXCEPT !.pCurOutData = @ + nMatchLen]
             ELSE [CopyMatchBytes(d1, d1.pCurOutData, pSrc, nMatchLen)
                     EXCEPT !.pCurOutData = @ + nMatchLen]
        ELSE Failed(d1)

\* a variant of the definition below: the token is read and pInBlock is left
\* on it
TokenNotConsumed(d, fast) ==
    [d EXCEPT !.inHi = Max(@, d.pInBlock + 1),
              !.tok = [NoToken EXCEPT !.pCur0 = d.pCurOutData]]

\* the token at pInBlock and, in the fast loop (fast = TRUE), its literals:
\* fewer than 15 are copied 16 bytes at once
ExpandLiterals(d, fast) ==
    LET token == d.inBlock[d.pInBlock + 1]
        nLiterals == token \div 16
        d1 == [d EXCEPT !.pInBlock = @ + 1, !.inHi = Max(@, d.pInBlock + 1),
                        !.tok = [NoToken EXCEPT !.pCur0 = d.pCurOutData,
                                                !.nLiterals = nLiterals]]
    IN  IF fast /\ nLiterals < LITERALS_RUN_LEN
        THEN [CopyLiterals(d1, 16) EXCEPT !.pInBlock = @ + nLiterals,
                                          !.pCurOutData = @ + nLiterals]
        ELSE lz4ultra_expand_literals_slow(d1, nLiterals)

\* the two offset bytes and the match of a token, in the fast loop (fast = TRUE)
\* and in the slow loop; the last token of a block has none
ExpandMatch(d, token, fast) ==
    IF d.pInBlock + 1 < pInBlockEnd(d)
    THEN LET nMatchOffset == d.inBlock[d.pInBlock + 1] + 256 * d.inBlock[d.pInBlock + 2]
             nMatchLen == token % 16
             d1 == [d EXCEPT !.pInBlock = @ + 2, !.inHi = Max(@, d.pInBlock + 2),
                             !.offLo = IF SourceInBuffer(d.pCurOutData - nMatchOffset)
                                       THEN Min(@, nMatchOffset) ELSE @,
                             !.tok.hasMatch = TRUE,
                             !.tok.nMatchOffset = nMatchOffset]
             pSrc == d1.pCurOutData - nMatchOffset
         IN  IF SourceInBuffer(pSrc)
             THEN IF fast /\ nMatchLen < MATCH_RUN_LEN /\ nMatchOffset >= 8
                     /\ d1.pCurOutData < pOutDataFastEnd(d1)
                  THEN [CopyMatch(CopyMatch(CopyMatch(d1, d1.pCurOutData, pSrc, 8),
                                            d1.pCurOutData + 8, pSrc + 8, 8),
                                  d1.pCurOutData + 16, pSrc + 16, 4)
                          EXCEPT !.pCurOutData = @ + MIN_MATCH_SIZE + nMatchLen,
                                 !.tok.nMatchLen = MIN_MATCH_SIZE + nMatchLen]
                  ELSE lz4ultra_expand_match_slow(d1, pSrc, nMatchLen)
             ELSE Failed(d1)
    ELSE d

\* one iteration of the fast loop (fast = TRUE) or of the slow loop
LoopBody(d, fast) ==
    LET token == d.inBlock[d.pInBlock + 1]
        d2 == ExpandLiterals([d EXCEPT !.nIter = @ + 1], fast)
        d3 == IF d2.pc = "done" THEN d2 ELSE ExpandMatch(d2, token, fast)
    IN  IF d3.pc = "done" THEN d3
        ELSE [d3 EXCEPT !.nDecoded = @ + d3.tok.nLiterals + d3.tok.nMatchLen]

\* the condition of the fast loop
FastCond(d) == d.pInBlock < pInBlockFastEnd(d) /\ d.pCurOutData < pOutDataFastEnd(d)

FastBody(d) == LoopBody(d, TRUE)

\* the condition of the slow loop
SlowCond(d) == d.pInBlock < pInBlockEnd(d)

SlowBody(d) == LoopBody(d, FALSE)

\* return (int)(pCurOutData - (pOutData + nOutDataOffset))
Returned(d) == [d EXCEPT !.pc = "done", !.ret = d.pCurOutData - d.nOutDataOffset]

\* the state on entry to lz4ultra_decompressor_expand_block_lz4
ExpandEntry(pInBlock, pOutData, nOutDataOffset, nBlockMaxSize, fill) ==
    [inBlock |-> pInBlock, nBlockSize |-> Len(pInBlock),
     pOutData |-> pOutData, nOutDataOffset |-> nOutDataOffset,
     nBlockMaxSize |-> nBlockMaxSize, fill |-> fill,
     pInBlock |-> 0, pCurOutData |-> nOutDataOffset,
     pc |-> "fast", ret |-> 0,
     inHi |-> 0, wrLo |-> nOutDataOffset + nBlockMaxSize, wrHi |-> nOutDataOffset,
     srcLo |-> nOutDataOffset + nBlockMaxSize, srcHi |-> 0, offLo |-> 65536,
     tok |-> NoToken, nDecoded |-> 0, nIter |-> 0]

\* one step of the decoder: an iteration of a loop, the passage from the fast
\* loop to the slow one, or the return
ExpandStep(d) ==
    IF d.pc = "fast"
    THEN IF FastCond(d) THEN FastBody(d) ELSE [d EXCEPT !.pc = "slow"]
    ELSE IF SlowCond(d) THEN SlowBody(d) ELSE Returned(d)

RECURSIVE RunExpand(_)
RunExpand(d) == IF d.pc = "done" THEN d ELSE RunExpand(ExpandStep(d))

\* the whole call: its final state (ret is the value returned)
lz4ultra_decompressor_expand_block_lz4(pInBlock, pOutData, nOutDataOffset, nBlockMaxSize, fill) ==
    RunExpand(ExpandEntry(pInBlock, pOutData, nOutDataOffset, nBlockMaxSize, fill))

(***************************************************************************)
(* Files and streams.  A stream is a file name, a position and the end-of- *)
(* file indicator, which a read sets when it meets the end of the file.    *)
(***************************************************************************)
NoFile == [exists |-> FALSE, data |-> << >>]

\* the contents of file f and their length
FileData(f) == Flat(f.data)
FileSize(f) == PagedLen(f.data)
NoStream == [name |-> "", pos |-> 0, eof |-> FALSE]

\* fopen(name, "rb") of an existing file
OpenRead(name) == [name |-> name, pos |-> 0, eof |-> FALSE]

\* The names on which the C library fails.  "." is a directory: fopen(name,
\* "rb") opens it and every fread returns 0 with the error indicator set, not
\* the end-of-file indicator; fopen(name, "wb") returns NULL.
IsDirectory(name) == name = "."

\* The number of bytes the device of the file has room for, -1 when there is
\* no limit: none on "/dev/full", 11 on "/quota11/f".  The streams are taken
\* as unbuffered, so that fwrite itself meets the end of the room.
Room(name) ==
    IF name = "/dev/full" THEN 0 ELSE IF name = "/quota11/f" THEN 11 ELSE -1

\* fopen(name, "wb") returns a stream
CanCreate(name) == ~IsDirectory(name)

\* fopen(name, "wb"): the file is created, or truncated
OpenWrite(fsys, name) == [fsys EXCEPT ![name] = [exists |-> TRUE, data |-> << >>]]

\* fread(buf, 1, n, f): the bytes read and the stream afterwards
fread(fsys, f, n) ==
    IF IsDirectory(f.name) THEN [bytes |-> << >>, f |-> f]
    ELSE LET data == FileData(fsys[f.name])
             k == Max(0, Min(n, Len(data) - f.pos))
         IN  [bytes |-> SubSeq(data, f.pos + 1, f.pos + k),
              f |-> [f EXCEPT !.pos = @ + k, !.eof = @ \/ k < n]]

\* the value fwrite(bytes, 1, n, f) returns on the stream writing file name:
\* the number of bytes stored
Written(fsys, name, bytes) ==
    IF Room(name) < 0 THEN Len(bytes)
    ELSE Max(0, Min(Len(bytes), Room(name) - FileSize(fsys[name])))

\* fwrite(bytes, 1, n, f) on the stream writing file name
fwrite(fsys, name, bytes) ==
    [fsys EXCEPT ![name].data =
        Pages(Flat(@) \o SubSeq(bytes, 1, Written(fsys, name, bytes)))]

\* a variant of the definition below: the size, big endian
BlockSizeBytesBE(n) ==
    <<(n \div 16777216) % 128, (n \div 65536) % 256, (n \div 256) % 256, n % 256>>

\* the four bytes of a block header: the size, little endian, bit 31 clear
BlockSizeBytes(n) ==
    <<n % 256, (n \div 256) % 256, (n \div 65536) % 256, (n \div 16777216) % 128>>

\* An unsigned int is kept as bit 31 (hi) and the 31 bits below it (lo).
\* cBlockSize[0] | cBlockSize[1] << 8 | cBlockSize[2] << 16 | cBlockSize[3] << 24
BlockSizeValue(b) ==
    [hi |-> b[4] >= 128,
     lo |-> b[1] + 256 * b[2] + 65536 * b[3] + 16777216 * (b[4] % 128)]

\* nFileSize - 2 in unsigned arithmetic, for nFileSize below 2^31
FileSizeLess2(nFileSize) ==
    IF nFileSize >= 2 THEN [hi |-> FALSE, lo |-> nFileSize - 2]
    ELSE [hi |-> TRUE, lo |-> 2147483646 + nFileSize]

(***************************************************************************)
(* Legacy driver (src/unnamed/part_000, second file)                       *)
(***************************************************************************)
BLOCK_SIZE == 65536
OPT_VERBOSE == 1
OPT_RAW == 2

\* nOptions & bit, for a bit 1 or 2
HasOpt(nOptions, bit) == (nOptions \div bit) % 2 = 1

\* a header with the code of 4 Mb blocks
cHeader70 == <<4, 34, 77, 24, 64, 7 * 16, 192>>

\* the frame header lz4ultra_compress writes
cHeader == <<4, 34, 77, 24, 64, 4 * 16, 192>>

(***************************************************************************)
(* The block compressor, lz4ultra_shrink_block (shrink.c), from sections   *)
(* 4.2 to 4.4 of the specification: the payload is the encoding of some    *)
(* parse of the block into literal runs and matches, where a match copies  *)
(* at least MIN_MATCH_SIZE bytes from 1 to 65535 bytes back in the window; *)
(* when no parse has an encoding that fits, the result is -1.              *)
(***************************************************************************)
MaxParseLen == 8
MaxMatches == 2

Repeat(b, n) == [i \in 1..n |-> b]

\* min(litRun, 15) << 4 | min(matchLen - 4, 15)
Token(nLiterals, nMatchCode) == 16 * Min(nLiterals, 15) + Min(nMatchCode, 15)

\* the bytes after the token for a run of n: none below 15, else 0xFF while
\* the remaining length is at least 255, then the remainder
RunBytes(n) ==
    IF n < 15 THEN << >>
    ELSE Repeat(255, (n - 15) \div 255) \o <<(n - 15) % 255>>

\* the l bytes at index q of window w (a sequence) repeat the bytes o back
IsMatch(w, q, o, l) == \A i \in 0..(l - 1) : w[q + i + 1] = w[q + i - o + 1]

\* the offsets a match at window index q may use
MatchOffsets(q) == {o \in (1..MaxParseLen) \cup {65535} : o <= q}

\* the encodings of the bytes of window w from index q on, with at most k
\* matches: payload bytes and number of tokens
RECURSIVE Encodings(_, _, _)
Encodings(w, q, k) ==
    LET n == Len(w) - q
        last == [bytes |-> <<Token(n, 0)>> \o RunBytes(n) \o SubSeq(w, q + 1, q + n),
                 cmds |-> 1]
    IN  {last} \cup
        IF k = 0 THEN {}
        ELSE UNION {
               UNION {
                 UNION {
                   { [bytes |-> <<Token(r, l - MIN_MATCH_SIZE)>> \o RunBytes(r)
                                  \o SubSeq(w, q + 1, q + r)
                                  \o <<o % 256, o \div 256>>
                                  \o RunBytes(l - MIN_MATCH_SIZE) \o rest.bytes,
                      cmds |-> 1 + rest.cmds] :
                     rest \in Encodings(w, q + r + l, k - 1) }
                   : l \in {l \in MIN_MATCH_SIZE..(n - r) : IsMatch(w, q + r, o, l)} }
                 : o \in MatchOffsets(q + r) }
               : r \in 0..(n - MIN_MATCH_SIZE) }

\* the encodings of a block too long to enumerate its parses: one literal and
\* a match of offset 1 for a block of equal bytes, and the literal run
LongEncodings(w, q) ==
    LET n == Len(w) - q
    IN  { [bytes |-> <<Token(n, 0)>> \o RunBytes(n) \o SubSeq(w, q + 1, q + n),
           cmds |-> 1] }
        \cup
        IF \A i \in (q + 2)..Len(w) : w[i] = w[q + 1]
        THEN { [bytes |-> <<Token(1, n - 1 - MIN_MATCH_SIZE), w[q + 1], 1, 0>>
                            \o RunBytes(n - 1 - MIN_MATCH_SIZE) \o <<Token(0, 0)>>,
                cmds |-> 2] }
        ELSE {}

\* the results of lz4ultra_shrink_block on a window of nPreviousBlockSize +
\* nInDataSize bytes: [size, bytes, cmds]
lz4ultra_shrink_block(pInWindow, nPreviousBlockSize, nInDataSize, nMaxOutDataSize) ==
    LET all == IF nInDataSize <= MaxParseLen
               THEN Encodings(pInWindow, nPreviousBlockSize, MaxMatches)
               ELSE LongEncodings(pInWindow, nPreviousBlockSize)
        fit == {e \in all : Len(e.bytes) <= nMaxOutDataSize}
    IN  IF fit = {}
        THEN {[size |-> -1, bytes |-> << >>, cmds |-> 1]}
        ELSE {[size |-> Len(e.bytes), bytes |-> e.bytes, cmds |-> e.cmds] : e \in fit}

(***************************************************************************)
(* lz4ultra_compress                                                       *)
(***************************************************************************)
\* the locals of lz4ultra_compress; nCommands is the compressor's count of
\* tokens, nBlocks the number of blocks written, stderr the last message
\* printed about the data, held the streams and buffers the call has opened
\* or allocated and not yet closed or freed, bIoFailed that a call of fread
\* or fwrite has failed
NoCompress ==
    [pszInFilename |-> "", pszOutFilename |-> "", nOptions |-> 0,
     f_in |-> NoStream, pInData |-> NoBytes, nPreviousBlockSize |-> 0,
     bError |-> FALSE, nOriginalSize |-> 0, nCompressedSize |-> 0,
     nCommands |-> 0, nBlocks |-> 0, nInDataSize |-> 0, nOutDataSize |-> 0,
     stderr |-> "", held |-> {}, bIoFailed |-> FALSE, ret |-> -1]

\* the call lz4ultra_compress(pszInFilename, pszOutFilename, nOptions)
CompressEntry(pszInFilename, pszOutFilename, nOptions) ==
    [NoCompress EXCEPT !.pszInFilename = pszInFilename,
                       !.pszOutFilename = pszOutFilename,
                       !.nOptions = nOptions]

\* the files are opened, the buffers allocated and the frame header written
CompressOpen ==
    /\ pc = "compress"
    /\ IF ~fs[comp.pszInFilename].exists
       THEN /\ comp' = [comp EXCEPT !.ret = 100]
            /\ pc' = "compress_ret"
            /\ fs' = fs
       ELSE IF ~CanCreate(comp.pszOutFilename)
       THEN /\ comp' = [comp EXCEPT !.ret = 100, !.held = {"f_in"}]
            /\ pc' = "compress_ret"
            /\ fs' = fs
       ELSE LET raw == HasOpt(comp.nOptions, OPT_RAW)
                fs1 == OpenWrite(fs, comp.pszOutFilename)
                bError == ~raw /\ Written(fs1, comp.pszOutFilename, cHeader) # 7
            IN  /\ fs' = IF raw THEN fs1 ELSE fwrite(fs1, comp.pszOutFilename, cHeader)
                /\ comp' = [comp EXCEPT !.f_in = OpenRead(comp.pszInFilename),
                                        !.pInData = NoBytes,
                                        !.bError = bError,
                                        !.bIoFailed = bError,
                                        !.held = {"f_in", "f_out", "pInData",
                                                  "pOutData", "compressor"},
                                        !.nCompressedSize = IF raw THEN 0 ELSE 7]
                /\ pc' = "compress_loop"
    /\ UNCHANGED <<dec, argv, main, decomp, compar, exit>>

\* variants of the two definitions below: no limit on the size of raw input,
\* and room for two blocks in pOutData
NoRawLimit(nPreviousBlockSize, nOptions) == FALSE
TwoBlocksOutDataSize(nInDataSize) == 2 * BLOCK_SIZE

\* nPreviousBlockSize && (nOptions & OPT_RAW) != 0
RawTooLarge(nPreviousBlockSize, nOptions) ==
    nPreviousBlockSize # 0 /\ HasOpt(nOptions, OPT_RAW)

\* (nInDataSize >= BLOCK_SIZE) ? BLOCK_SIZE : nInDataSize
MaxOutDataSize(nInDataSize) ==
    IF nInDataSize >= BLOCK_SIZE THEN BLOCK_SIZE ELSE nInDataSize

\* memcpy(pInData, pInData + BLOCK_SIZE, nPreviousBlockSize)
MoveInput(c) ==
    IF c.nPreviousBlockSize # 0
    THEN MemWrite(c.pInData, 0, MemReadN(c.pInData, 0, BLOCK_SIZE, c.nPreviousBlockSize))
    ELSE c.pInData

\* the locals after the read rd of a block into pInData
AfterInput(c, rd, pInData) ==
    [c EXCEPT !.f_in = rd.f, !.pInData = pInData,
              !.bIoFailed = @ \/ IsDirectory(c.f_in.name)]

\* the block header cBlockSize, when there is one, and then the payload are
\* written, the payload only when the header was: the file system afterwards
\* and whether every call of fwrite returned the size asked
WriteBlock(fsys, name, cBlockSize, payload) ==
    IF cBlockSize # << >> /\ Written(fsys, name, cBlockSize) # 4
    THEN [fs |-> fwrite(fsys, name, cBlockSize), ok |-> FALSE]
    ELSE LET fs1 == IF cBlockSize # << >> THEN fwrite(fsys, name, cBlockSize) ELSE fsys
         IN  [fs |-> fwrite(fs1, name, payload),
              ok |-> Written(fs1, name, payload) = Len(payload)]

\* the locals after a call of fwrite for the block of nInDataSize bytes has
\* failed
AfterWriteError(c, nCommands, nInDataSize) ==
    [c EXCEPT !.nCommands = @ + nCommands,
              !.bError = TRUE,
              !.bIoFailed = TRUE,
              !.nPreviousBlockSize = nInDataSize]

\* the locals after a block of nInDataSize bytes has been written as
\* nOutDataSize bytes
AfterBlock(c, nCommands, nInDataSize, nOutDataSize) ==
    [c EXCEPT !.nCommands = @ + nCommands,
              !.nOriginalSize = @ + nInDataSize,
              !.nCompressedSize = @ + 3 + nOutDataSize,
              !.nBlocks = @ + 1,
              !.nPreviousBlockSize = nInDataSize]

\* the locals after lz4ultra_shrink_block has returned res for the block read
AfterShrink(c, rd, pInData, res) ==
    [AfterInput(c, rd, pInData) EXCEPT !.nInDataSize = Len(rd.bytes),
                                       !.nOutDataSize = res.size]

\* lz4ultra_compress after lz4ultra_shrink_block has returned res
CompressShrunk(rd, pInData, res) ==
    IF res.size >= 0
    THEN \* the compressed block
         \E w \in {WriteBlock(fs, comp.pszOutFilename,
                              IF HasOpt(comp.nOptions, OPT_RAW) THEN << >>
                              ELSE BlockSizeBytes(res.size),
                              res.bytes)} :
            /\ fs' = w.fs
            /\ comp' = IF w.ok
                       THEN AfterBlock(AfterShrink(comp, rd, pInData, res), res.cmds,
                                       Len(rd.bytes), res.size)
                       ELSE AfterWriteError(AfterShrink(comp, rd, pInData, res),
                                            res.cmds, Len(rd.bytes))
    ELSE IF HasOpt(comp.nOptions, OPT_RAW)
    THEN \* data is incompressible
         /\ comp' = [AfterShrink(comp, rd, pInData, res)
                        EXCEPT !.nCommands = @ + res.cmds,
                               !.stderr = "error: data is incompressible, raw blocks only support compressed data",
                               !.bError = TRUE]
         /\ fs' = fs
    ELSE \* the uncompressed block
         \E w \in {WriteBlock(fs, comp.pszOutFilename,
                              [BlockSizeBytes(Len(rd.bytes)) EXCEPT ![4] = @ + 128],
                              rd.bytes)} :
            /\ fs' = w.fs
            /\ comp' = IF w.ok
                       THEN AfterBlock(AfterShrink(comp, rd, pInData, res), res.cmds,
                                       Len(rd.bytes), Len(rd.bytes))
                       ELSE AfterWriteError(AfterShrink(comp, rd, pInData, res),
                                            res.cmds, Len(rd.bytes))

\* lz4ultra_compress after the read rd of a block into pInData
CompressRead(rd, pInData) ==
    IF Len(rd.bytes) > 0
    THEN IF RawTooLarge(comp.nPreviousBlockSize, comp.nOptions)
         THEN /\ comp' = [AfterInput(comp, rd, pInData)
                             EXCEPT !.stderr = "error: raw blocks can only be used with files <= 64 Kb",
                                    !.bError = TRUE]
              /\ fs' = fs
         ELSE \E pInWindow \in {MemReadN(pInData, 0, BLOCK_SIZE - comp.nPreviousBlockSize,
                                        comp.nPreviousBlockSize + Len(rd.bytes))} :
              \E res \in lz4ultra_shrink_block(
                             pInWindow, comp.nPreviousBlockSize, Len(rd.bytes),
                             MaxOutDataSize(Len(rd.bytes))) :
                 CompressShrunk(rd, pInData, res)
    ELSE /\ comp' = AfterInput(comp, rd, pInData)
         /\ fs' = fs

\* one iteration of while (!feof(f_in) && !bError)
CompressBlock ==
    /\ pc = "compress_loop"
    /\ ~comp.f_in.eof /\ ~comp.bError
    /\ \E rd \in {fread(fs, comp.f_in, BLOCK_SIZE)} :
       \E pInData \in {MemWrite(MoveInput(comp), BLOCK_SIZE, rd.bytes)} :
          CompressRead(rd, pInData)
    /\ pc' = pc
    /\ UNCHANGED <<dec, argv, main, decomp, compar, exit>>

\* after the loop: the footer, the summary, the release of the resources and
\* the return.  With -v the summary divides by the number of tokens: by zero
\* the process is stopped by a signal before the output reaches the file, or
\* the division yields some value and the function goes on.
CompressFinish ==
    /\ pc = "compress_loop"
    /\ comp.f_in.eof \/ comp.bError
    /\ LET raw == HasOpt(comp.nOptions, OPT_RAW)
           cFooter == IF raw THEN <<0, 0>> ELSE <<0, 0, 0, 0>>
           fs1 == IF ~comp.bError THEN fwrite(fs, comp.pszOutFilename, cFooter) ELSE fs
           bError == IF ~comp.bError
                     THEN Written(fs, comp.pszOutFilename, cFooter) # Len(cFooter)
                     ELSE TRUE
           c1 == [comp EXCEPT !.nCompressedSize = @ + Len(cFooter),
                              !.bError = bError,
                              !.bIoFailed = @ \/ (~comp.bError /\ bError)]
       IN  \/ /\ ~bError /\ HasOpt(comp.nOptions, OPT_VERBOSE) /\ comp.nCommands = 0
              /\ fs' = [fs EXCEPT ![comp.pszOutFilename].data = << >>]
              /\ comp' = c1
              /\ pc' = "killed"
              /\ exit' = 128 + 8
           \/ /\ fs' = fs1
              /\ comp' = [c1 EXCEPT !.held = {},
                                    !.ret = IF bError THEN 100 ELSE 0]
              /\ pc' = "compress_ret"
              /\ exit' = exit
    /\ UNCHANGED <<dec, argv, main, decomp, compar>>

(***************************************************************************)
(* lz4ultra_decompress                                                     *)
(***************************************************************************)
\* lz4ultra_expand_block, the block decoder the drivers call
lz4ultra_expand_block(pInBlock, pOutData, nOutDataOffset, nBlockMaxSize, fill) ==
    lz4ultra_decompressor_expand_block_lz4(pInBlock, pOutData, nOutDataOffset,
                                           nBlockMaxSize, fill)

\* variants of the comparison below: of the magic number only, and with the
\* code of 4 Mb blocks
MagicAccepted(h) == ~(h[1] # 4 \/ h[2] # 34 \/ h[3] # 77 \/ h[4] # 24)
HeaderAccepted70(h) ==
    ~(h[1] # 4 \/ h[2] # 34 \/ h[3] # 77 \/ h[4] # 24 \/
      h[5] # 64 \/ h[6] # 7 * 16 \/ h[7] # 192)

\* the comparison of the seven header bytes read by lz4ultra_decompress
HeaderAccepted(h) ==
    ~(h[1] # 4 \/ h[2] # 34 \/ h[3] # 77 \/ h[4] # 24 \/
      h[5] # 64 \/ h[6] # 4 * 16 \/ h[7] # 192)

\* the comparison of the seven header bytes read by lz4ultra_compare
CompareHeaderAccepted(h) ==
    ~(h[1] # 4 \/ h[2] # 34 \/ h[3] # 77 \/ h[4] # 24 \/
      h[5] # 64 \/ h[6] # 4 * 16 \/ h[7] # 192)

\* the locals of lz4ultra_decompress and of lz4ultra_compare; bOutOpened
\* records that the second file has been opened, bOverflow that more bytes
\* were read into pInBlock, or copied into pOutData, than the buffer holds,
\* held the streams and buffers opened or allocated and not yet closed or
\* freed, bIoFailed that a call of fwrite has failed, bUnwritten that a match
\* of a block decoded without error has copied from its own position on
\* (offset 0) or from before the block decoded last, bEndMark that the four
\* bytes of a block header have been read in framed mode and were all 0
NoExpand ==
    [pszInFilename |-> "", pszOutFilename |-> "", nOptions |-> 0,
     pInFile |-> NoStream, pOutFile |-> NoStream, nFileSize |-> 0,
     pOutData |-> NoBytes, fill |-> 0,
     nDecompressionError |-> 0, bComparisonError |-> FALSE,
     nPrevDecompressedSize |-> 0, nOriginalSize |-> 0, nKnownGoodSize |-> 0,
     bOutOpened |-> FALSE, bOverflow |-> FALSE,
     held |-> {}, bIoFailed |-> FALSE, bUnwritten |-> FALSE, bEndMark |-> FALSE,
     ret |-> -1]

\* the call lz4ultra_decompress(pszInFilename, pszOutFilename, nOptions)
DecompressEntry(pszInFilename, pszOutFilename, nOptions) ==
    [NoExpand EXCEPT !.pszInFilename = pszInFilename,
                     !.pszOutFilename = pszOutFilename,
                     !.nOptions = nOptions]

\* what the start of both functions finds in the compressed file: the status
\* 100 when the file, its header or its size is rejected, else 0, with the
\* stream after the header and the size of a raw file; bAccepted[h] is the
\* function's comparison of the header bytes h
OpenCompressed(fsys, x, bAccepted) ==
    IF ~fsys[x.pszInFilename].exists THEN [ret |-> 100, f |-> NoStream, nFileSize |-> 0]
    ELSE IF ~HasOpt(x.nOptions, OPT_RAW)
         THEN LET rd == fread(fsys, OpenRead(x.pszInFilename), 7)
              IN  IF Len(rd.bytes) # 7 THEN [ret |-> 100, f |-> rd.f, nFileSize |-> 0]
                  ELSE IF ~bAccepted[rd.bytes] THEN [ret |-> 100, f |-> rd.f, nFileSize |-> 0]
                  ELSE [ret |-> 0, f |-> rd.f, nFileSize |-> 0]
         ELSE LET nFileSize == FileSize(fsys[x.pszInFilename])
              IN  [ret |-> IF nFileSize < 2 THEN 100 ELSE 0,
                   f |-> OpenRead(x.pszInFilename), nFileSize |-> nFileSize]

\* nBlockSize as one iteration of the loop of both functions sets it from
\* the result hd of reading the four bytes of a block header
ReadBlockSize(x, hd) ==
    IF HasOpt(x.nOptions, OPT_RAW) THEN FileSizeLess2(x.nFileSize)
    ELSE IF Len(hd.bytes) = 4 THEN BlockSizeValue(hd.bytes)
    ELSE [hi |-> FALSE, lo |-> 0]

\* the block read: whether nBlockSize is not 0, its bit 31, its value once
\* masked, the bytes read, whether all of them were there, the stream afterwards
BlockRead(nBlockSize, rd) ==
    [nonzero |-> nBlockSize.hi \/ nBlockSize.lo # 0,
     bIsUncompressed |-> nBlockSize.hi,
     nBlockSize |-> nBlockSize.lo,
     pInBlock |-> rd.bytes,
     complete |-> Len(rd.bytes) = nBlockSize.lo,
     f |-> rd.f]

\* fread(pInBlock, 1, nBlockSize, pInFile) when nBlockSize is not 0
ReadPayload(fsys, f, nBlockSize) ==
    BlockRead(nBlockSize,
              IF nBlockSize.hi \/ nBlockSize.lo # 0 THEN fread(fsys, f, nBlockSize.lo)
              ELSE [bytes |-> << >>, f |-> f])

ReadFramed(fsys, x, hd) ==
    ReadPayload(fsys, IF HasOpt(x.nOptions, OPT_RAW) THEN x.pInFile ELSE hd.f,
                ReadBlockSize(x, hd))

\* the block header and the block read by one iteration of the loop of both
\* functions
ReadBlock(fsys, x) == ReadFramed(fsys, x, fread(fsys, x.pInFile, 4))

\* a variant of the definition below: the previous block is left where it
\* was decoded
KeepWindow(x) == x.pOutData

\* the block decoded into pOutData + BLOCK_SIZE by one iteration of the loop
\* of both functions, after the previous block has been moved in front of it
MoveWindow(x) ==
    IF x.nPrevDecompressedSize # 0
    THEN MemWrite(x.pOutData, BLOCK_SIZE - x.nPrevDecompressedSize,
                  MemReadN(x.pOutData, x.fill, BLOCK_SIZE, x.nPrevDecompressedSize))
    ELSE x.pOutData

\* what a call of the block decoder leaves: the buffer, the value returned,
\* and the lowest index and the lowest offset its matches have copied from
Expanded(r) ==
    [pOutData |-> r.pOutData, nDecompressedSize |-> r.ret,
     srcLo |-> r.srcLo, offLo |-> r.offLo]

DecodeBlock(x, blk) ==
    IF blk.bIsUncompressed
    THEN [pOutData |-> MemWrite(MoveWindow(x), BLOCK_SIZE, blk.pInBlock),
          nDecompressedSize |-> blk.nBlockSize,
          srcLo |-> 2 * BLOCK_SIZE, offLo |-> 65536]
    ELSE Expanded(lz4ultra_expand_block(blk.pInBlock, MoveWindow(x), BLOCK_SIZE,
                                        BLOCK_SIZE, x.fill))

\* more bytes than a buffer holds are stored by the read of a block, or by the
\* copy of an uncompressed block
Overflows(blk) ==
    \/ Len(blk.pInBlock) > BLOCK_SIZE
    \/ blk.complete /\ blk.bIsUncompressed /\ blk.nBlockSize > BLOCK_SIZE

\* the input file is opened, the header checked, the output file opened and
\* the buffers allocated
DecompressOpen ==
    /\ pc = "decompress"
    /\ LET o == OpenCompressed(fs, decomp, [h \in Seq(0..255) |-> HeaderAccepted(h)])
       IN  IF o.ret # 0
           THEN /\ decomp' = [decomp EXCEPT !.ret = 100]
                /\ pc' = "decompress_ret"
                /\ fs' = fs
           ELSE IF ~CanCreate(decomp.pszOutFilename)
           THEN /\ decomp' = [decomp EXCEPT !.ret = 100]
                /\ pc' = "decompress_ret"
                /\ fs' = fs
           ELSE \E fill \in HeapBytes :
                /\ fs' = OpenWrite(fs, decomp.pszOutFilename)
                /\ decomp' = [decomp EXCEPT !.pInFile = o.f,
                                            !.nFileSize = o.nFileSize,
                                            !.pOutFile = OpenRead(decomp.pszOutFilename),
                                            !.bOutOpened = TRUE,
                                            !.held = {"pInFile", "pOutFile",
                                                      "pInBlock", "pOutData"},
                                            !.pOutData = NoBytes,
                                            !.fill = fill]
                /\ pc' = "decompress_loop"
    /\ UNCHANGED <<dec, argv, main, comp, compar, exit>>

\* the locals after the block has been read
AfterRead(x, blk) ==
    [x EXCEPT !.pInFile = blk.f,
              !.nFileSize = IF HasOpt(x.nOptions, OPT_RAW) THEN 0 ELSE @,
              !.bOverflow = @ \/ Overflows(blk),
              !.bEndMark = @ \/ (/\ ~HasOpt(x.nOptions, OPT_RAW)
                                 /\ ~blk.nonzero
                                 /\ blk.f.pos = x.pInFile.pos + 4)]

\* lz4ultra_decompress after the block has been decoded into r
DecompressDecoded(blk, r) ==
    IF r.nDecompressedSize < 0
    THEN /\ decomp' = [AfterRead(decomp, blk) EXCEPT
                          !.pOutData = r.pOutData,
                          !.nDecompressionError = r.nDecompressedSize]
         /\ fs' = fs
         /\ pc' = "decompress_done"
    ELSE IF r.nDecompressedSize # 0
    THEN \E bytes \in {MemReadN(r.pOutData, decomp.fill, BLOCK_SIZE, r.nDecompressedSize)} :
         /\ decomp' = [AfterRead(decomp, blk) EXCEPT
                          !.pOutData = r.pOutData,
                          !.nOriginalSize = @ + r.nDecompressedSize,
                          !.nPrevDecompressedSize = r.nDecompressedSize,
                          !.bUnwritten = @ \/ r.offLo = 0
                                           \/ r.srcLo < BLOCK_SIZE - decomp.nPrevDecompressedSize,
                          !.bIoFailed = @ \/ Written(fs, decomp.pszOutFilename, bytes)
                                                # r.nDecompressedSize]
         /\ fs' = fwrite(fs, decomp.pszOutFilename, bytes)
         /\ pc' = pc
    ELSE /\ decomp' = [AfterRead(decomp, blk) EXCEPT !.pOutData = r.pOutData]
         /\ fs' = fs
         /\ pc' = pc

\* lz4ultra_decompress after the block has been read: storing more bytes than
\* a buffer holds either stops the process or goes unnoticed
DecompressRead(blk) ==
    \/ /\ Overflows(blk)
       /\ decomp' = AfterRead(decomp, blk)
       /\ fs' = fs
       /\ pc' = "killed"
       /\ exit' = 128 + 11
    \/ /\ exit' = exit
       /\ IF blk.nonzero /\ blk.complete
          THEN \E r \in {DecodeBlock(decomp, blk)} : DecompressDecoded(blk, r)
          ELSE /\ decomp' = AfterRead(decomp, blk)
               /\ fs' = fs
               /\ pc' = "decompress_done"

\* one iteration of while (!feof(pInFile) && !nDecompressionError)
DecompressBlock ==
    /\ pc = "decompress_loop"
    /\ ~decomp.pInFile.eof /\ decomp.nDecompressionError = 0
    /\ \E blk \in {ReadBlock(fs, decomp)} : DecompressRead(blk)
    /\ UNCHANGED <<dec, argv, main, comp, compar>>

\* after the loop: the resources are released and the status returned
DecompressFinish ==
    /\ \/ pc = "decompress_done"
       \/ pc = "decompress_loop" /\ (decomp.pInFile.eof \/ decomp.nDecompressionError # 0)
    /\ decomp' = [decomp EXCEPT !.held = {},
                                !.ret = IF decomp.nDecompressionError # 0 THEN 100 ELSE 0]
    /\ pc' = "decompress_ret"
    /\ UNCHANGED <<dec, argv, fs, main, comp, compar, exit>>

(***************************************************************************)
(* lz4ultra_compare                                                        *)
(***************************************************************************)
\* the call lz4ultra_compare(pszInFilename, pszOutFilename, nOptions): the
\* compressed file, then the original file
CompareEntry(pszInFilename, pszOutFilename, nOptions) ==
    [NoExpand EXCEPT !.pszInFilename = pszInFilename,
                     !.pszOutFilename = pszOutFilename,
                     !.nOptions = nOptions]

\* the compressed file is opened, the header checked, the original file
\* opened and the buffers allocated
CompareOpen ==
    /\ pc = "compare"
    /\ LET o == OpenCompressed(fs, compar, [h \in Seq(0..255) |-> CompareHeaderAccepted(h)])
       IN  IF o.ret # 0 \/ ~fs[compar.pszOutFilename].exists
           THEN /\ compar' = [compar EXCEPT !.ret = 100]
                /\ pc' = "compare_ret"
           ELSE \E fill \in HeapBytes :
                /\ compar' = [compar EXCEPT !.pInFile = o.f,
                                            !.nFileSize = o.nFileSize,
                                            !.pOutFile = OpenRead(compar.pszOutFilename),
                                            !.bOutOpened = TRUE,
                                            !.held = {"pInFile", "pOutFile", "pInBlock",
                                                      "pOutData", "pCompareData"},
                                            !.pOutData = NoBytes,
                                            !.fill = fill]
                /\ pc' = "compare_loop"
    /\ UNCHANGED <<dec, argv, fs, main, comp, decomp, exit>>

\* lz4ultra_compare after the block has been decoded into r
CompareDecoded(cmp, blk, r) ==
    IF r.nDecompressedSize < 0
    THEN /\ compar' = [AfterRead(compar, blk) EXCEPT
                          !.pOutFile = cmp.f,
                          !.pOutData = r.pOutData,
                          !.nDecompressionError = r.nDecompressedSize]
         /\ pc' = "compare_done"
    ELSE IF r.nDecompressedSize = Len(cmp.bytes)
    THEN /\ compar' = [AfterRead(compar, blk) EXCEPT
                          !.pOutFile = cmp.f,
                          !.pOutData = r.pOutData,
                          !.nKnownGoodSize = compar.nOriginalSize,
                          !.nOriginalSize = @ + r.nDecompressedSize,
                          !.bComparisonError =
                              MemReadN(r.pOutData, compar.fill, BLOCK_SIZE,
                                       Len(cmp.bytes)) # cmp.bytes,
                          !.nPrevDecompressedSize = r.nDecompressedSize]
         /\ pc' = pc
    ELSE /\ compar' = [AfterRead(compar, blk) EXCEPT
                          !.pOutFile = cmp.f,
                          !.pOutData = r.pOutData,
                          !.bComparisonError = TRUE]
         /\ pc' = "compare_done"

\* lz4ultra_compare after nBytesToCompare bytes of the original and the block
\* have been read
CompareRead(cmp, blk) ==
    \/ /\ Overflows(blk)
       /\ compar' = [AfterRead(compar, blk) EXCEPT !.pOutFile = cmp.f]
       /\ pc' = "killed"
       /\ exit' = 128 + 11
    \/ /\ exit' = exit
       /\ IF blk.nonzero /\ blk.complete
          THEN \E r \in {DecodeBlock(compar, blk)} : CompareDecoded(cmp, blk, r)
          ELSE /\ compar' = [AfterRead(compar, blk) EXCEPT !.pOutFile = cmp.f]
               /\ pc' = "compare_done"

\* one iteration of
\* while (!feof(pInFile) && !nDecompressionError && !bComparisonError)
CompareBlock ==
    /\ pc = "compare_loop"
    /\ ~compar.pInFile.eof /\ compar.nDecompressionError = 0 /\ ~compar.bComparisonError
    /\ \E cmp \in {fread(fs, compar.pOutFile, BLOCK_SIZE)}, blk \in {ReadBlock(fs, compar)} :
          CompareRead(cmp, blk)
    /\ UNCHANGED <<dec, argv, fs, main, comp, decomp>>

\* after the loop: the resources are released and the status returned
CompareFinish ==
    /\ \/ pc = "compare_done"
       \/ pc = "compare_loop" /\ (compar.pInFile.eof \/ compar.nDecompressionError # 0
                                  \/ compar.bComparisonError)
    /\ compar' = [compar EXCEPT !.held = {},
                                !.ret = IF compar.nDecompressionError # 0 THEN 100
                                        ELSE IF compar.bComparisonError THEN 100
                                        ELSE 0]
    /\ pc' = "compare_ret"
    /\ UNCHANGED <<dec, argv, fs, main, comp, decomp, exit>>

(***************************************************************************)
(* main                                                                    *)
(***************************************************************************)
\* the locals of main before the loop over the arguments
NoMain ==
    [pszInFilename |-> "", pszOutFilename |-> "", bArgsError |-> FALSE,
     bCommandDefined |-> FALSE, bVerifyCompression |-> FALSE,
     cCommand |-> "z", nOptions |-> 0]

\* one iteration of for (i = 1; i < argc; i++); "" is the null pointer
ParseArg(m, arg) ==
    IF arg = "-d"
    THEN IF ~m.bCommandDefined
         THEN [m EXCEPT !.bCommandDefined = TRUE, !.cCommand = "d"]
         ELSE [m EXCEPT !.bArgsError = TRUE]
    ELSE IF arg = "-z"
    THEN IF ~m.bCommandDefined
         THEN [m EXCEPT !.bCommandDefined = TRUE, !.cCommand = "z"]
         ELSE [m EXCEPT !.bArgsError = TRUE]
    ELSE IF arg = "-c"
    THEN IF ~m.bVerifyCompression
         THEN [m EXCEPT !.bVerifyCompression = TRUE]
         ELSE [m EXCEPT !.bArgsError = TRUE]
    ELSE IF arg = "-v"
    THEN IF ~HasOpt(m.nOptions, OPT_VERBOSE)
         THEN [m EXCEPT !.nOptions = @ + OPT_VERBOSE]
         ELSE [m EXCEPT !.bArgsError = TRUE]
    ELSE IF arg = "-r"
    THEN IF ~HasOpt(m.nOptions, OPT_RAW)
         THEN [m EXCEPT !.nOptions = @ + OPT_RAW]
         ELSE [m EXCEPT !.bArgsError = TRUE]
    ELSE IF m.pszInFilename = ""
         THEN [m EXCEPT !.pszInFilename = arg]
         ELSE IF m.pszOutFilename = ""
              THEN [m EXCEPT !.pszOutFilename = arg]
              ELSE [m EXCEPT !.bArgsError = TRUE]

\* the loop over the arguments
RECURSIVE ParseArgs(_, _)
ParseArgs(m, args) ==
    IF args = << >> THEN m ELSE ParseArgs(ParseArg(m, Head(args)), Tail(args))

\* the command line is rejected with the usage message
UsageError(m) == m.bArgsError \/ m.pszInFilename = "" \/ m.pszOutFilename = ""

\* main up to the call of lz4ultra_compress or lz4ultra_decompress
MainArgs ==
    /\ pc = "main"
    /\ LET m == ParseArgs(NoMain, argv)
       IN  /\ main' = m
           /\ IF UsageError(m)
              THEN /\ exit' = 100
                   /\ pc' = "exited"
                   /\ UNCHANGED <<comp, decomp>>
              ELSE IF m.cCommand = "z"
              THEN /\ comp' = CompressEntry(m.pszInFilename, m.pszOutFilename, m.nOptions)
                   /\ pc' = "compress"
                   /\ UNCHANGED <<decomp, exit>>
              ELSE IF m.cCommand = "d"
              THEN /\ decomp' = DecompressEntry(m.pszInFilename, m.pszOutFilename, m.nOptions)
                   /\ pc' = "decompress"
                   /\ UNCHANGED <<comp, exit>>
              ELSE /\ exit' = 100
                   /\ pc' = "exited"
                   /\ UNCHANGED <<comp, decomp>>
    /\ UNCHANGED <<dec, argv, fs, compar>>

\* lz4ultra_compress has returned into the branch cCommand == 'z': nResult
\* is set, lz4ultra_compare is called when it is 0 and -c was given; else the
\* end of main is reached without a return statement, and the status is 0
MainCompressed ==
    /\ pc = "compress_ret"
    /\ LET nResult == comp.ret
       IN  IF nResult = 0 /\ main.bVerifyCompression
           THEN /\ compar' = CompareEntry(main.pszOutFilename, main.pszInFilename,
                                          main.nOptions)
                /\ pc' = "compare"
                /\ exit' = exit
           ELSE /\ compar' = compar
                /\ pc' = "exited"
                /\ exit' = 0
    /\ UNCHANGED <<dec, argv, fs, main, comp, decomp>>

\* lz4ultra_compare has returned: nResult is set and the end of main reached
MainCompared ==
    /\ pc = "compare_ret"
    /\ pc' = "exited"
    /\ exit' = 0
    /\ UNCHANGED <<dec, argv, fs, main, comp, decomp, compar>>

\* return lz4ultra_decompress(...)
MainDecompressed ==
    /\ pc = "decompress_ret"
    /\ pc' = "exited"
    /\ exit' = decomp.ret
    /\ UNCHANGED <<dec, argv, fs, main, comp, decomp, compar>>

(***************************************************************************)
(* SpecExpand: one call of the block decoder, step by step, on every       *)
(* block of ExpandBlocks, with and without previously decompressed bytes.  *)
(***************************************************************************)
MaxBlockLen == 4
MaxHeadLen == 2

\* token, offset, run-length and literal bytes: tokens with 0, 1 and 15
\* literals and match nibbles 0, 1, 8 and 15, offsets 0, 1 and 8
ExpandBytes == {0, 1, 8, 31, 240, 255}

\* a well-formed block of four tokens: 2 literals and an overlapping match
\* (offset 2, length 5); 1 literal and a match (offset 8, length 4); a match
\* (offset 1) of length 15 + 2 + 4; 15 + 1 literals
TailA == <<33, 97, 98, 2, 0,  16, 99, 8, 0,  15, 1, 0, 2,  240, 1>>
           \o [k \in 1..16 |-> 100 + k]

\* a block of three tokens: a match (offset 8) of length 15 + 5 + 4, a match
\* (offset 9, length 4), 14 literals
TailB == <<15, 8, 0, 5,  0, 9, 0,  224>> \o [k \in 1..14 |-> 120 + k]

\* the block of "aaaaaaaa": a literal and a match (offset 1, length 7), then
\* the last token; and the same with 7 as the match nibble
BlockA8 == <<19, 97, 1, 0, 0>>
BlockA8Nibble7 == <<23, 97, 1, 0, 0>>

\* a block of two tokens, long enough for the fast loop: 1 literal and a
\* match of length 4 at offset 0; 15 + 0 literals
BlockOffset0 == <<16, 97, 0, 0, 240, 0>> \o [k \in 1..15 |-> 100 + k]

\* run lengths around the values where the number of their bytes changes
RunValues == {0, 14, 15, 16, 269, 270, 271, 524, 525}

\* the block of n literals, and the block of one literal, a match of length
\* n + MIN_MATCH_SIZE at offset 1 and the last token, as the compressor
\* encodes them
LiteralRunBlock(n) == <<Token(n, 0)>> \o RunBytes(n) \o [k \in 1..n |-> 97]
MatchRunBlock(n) == <<Token(1, n), 97, 1, 0>> \o RunBytes(n) \o <<Token(0, 0)>>

ExpandBlocks ==
    SeqsUpTo(ExpandBytes, MaxBlockLen)
        \cup {BlockA8, BlockA8Nibble7, BlockOffset0}
        \cup {LiteralRunBlock(n) : n \in RunValues}
        \cup {MatchRunBlock(n) : n \in RunValues}
        \cup {h \o t : h \in SeqsUpTo(ExpandBytes, MaxHeadLen), t \in {TailA, TailB}}

\* the sizes of the previously decompressed data and of the room for the block
ExpandOffsets == {0, 9}
ExpandMaxSizes == {0, 3, 24, 64, 300, 600}

\* n previously decompressed bytes
PriorData(n) == BytesAt(0, [i \in 1..n |-> 64 + i])

\* the process is not running: the variables of the drivers while the block
\* decoder is checked alone, and of the decoder while the drivers run
NoFiles == [n \in {"f1", "f2", "f3"} |-> NoFile]
NoDec == ExpandEntry(<< >>, NoBytes, 0, 0, 0)

DriverIdle ==
    /\ argv = << >>
    /\ fs = NoFiles
    /\ pc = "idle"
    /\ main = NoMain
    /\ comp = NoCompress
    /\ decomp = NoExpand
    /\ compar = NoExpand
    /\ exit = -1

InitExpand ==
    /\ \E b \in ExpandBlocks, o \in ExpandOffsets, m \in ExpandMaxSizes, f \in HeapBytes :
          dec = ExpandEntry(b, PriorData(o), o, m, f)
    /\ DriverIdle

FastLoop ==
    /\ dec.pc = "fast" /\ FastCond(dec)
    /\ dec' = FastBody(dec)
    /\ UNCHANGED <<argv, fs, pc, main, comp, decomp, compar, exit>>

FastLoopExit ==
    /\ dec.pc = "fast" /\ ~FastCond(dec)
    /\ dec' = [dec EXCEPT !.pc = "slow"]
    /\ UNCHANGED <<argv, fs, pc, main, comp, decomp, compar, exit>>

SlowLoop ==
    /\ dec.pc = "slow" /\ SlowCond(dec)
    /\ dec' = SlowBody(dec)
    /\ UNCHANGED <<argv, fs, pc, main, comp, decomp, compar, exit>>

ExpandReturn ==
    /\ dec.pc = "slow" /\ ~SlowCond(dec)
    /\ dec' = Returned(dec)
    /\ UNCHANGED <<argv, fs, pc, main, comp, decomp, compar, exit>>

NextExpand == FastLoop \/ FastLoopExit \/ SlowLoop \/ ExpandReturn

SpecExpand == InitExpand /\ [][NextExpand]_vars

(***************************************************************************)
(* The block decoder's error returns.                                      *)
(***************************************************************************)
\* the source of the match of the token decoded last starts below pOutData
MatchBelowBuffer ==
    /\ dec.tok.hasMatch
    /\ dec.tok.pCur0 + dec.tok.nLiterals - dec.tok.nMatchOffset < 0

\* C4: whenever the offset of a token's match points before the start of the
\* output buffer (write position - offset < pOutData), the call returns -1 and
\* no byte of that match has been copied.
OffsetBeforeBufferFails ==
    MatchBelowBuffer => (dec.pc = "done" /\ dec.ret = -1 /\ dec.tok.matchWr = 0)

\* C4, the case: with previously decompressed bytes in the buffer and the
\* token's literals copied, a match reaches below the buffer and the call has
\* returned -1
OffsetBeforeBufferSeen ==
    /\ MatchBelowBuffer
    /\ dec.nOutDataOffset > 0 /\ dec.tok.nLiterals > 0
    /\ dec.pc = "done" /\ dec.ret = -1

\* C5: whenever the length bytes of a literal run or of a match run into the
\* end of the block (after a nibble of 15, or after a byte 255), the call
\* returns -1 instead of using the length read so far.
TruncatedRunFails ==
    (dec.tok.litCut \/ dec.tok.matchCut) => (dec.pc = "done" /\ dec.ret = -1)

\* the room left for the token decoded last is too small for its literals, or
\* for its literals and its match
RunBeyondMaxSize ==
    \/ dec.tok.pCur0 + dec.tok.nLiterals > pOutDataEnd(dec)
    \/ dec.tok.pCur0 + dec.tok.nLiterals + dec.tok.nMatchLen > pOutDataEnd(dec)

\* C6: the call returns -1 or a value from 0 to nBlockMaxSize that is the
\* number of bytes decoded from pOutData + nOutDataOffset on, and it returns -1
\* whenever a literal run or a match would extend the output beyond
\* nBlockMaxSize bytes.
NeverBeyondMaxSize ==
    /\ dec.pc = "done" =>
          \/ dec.ret = -1
          \/ dec.ret >= 0 /\ dec.ret <= dec.nBlockMaxSize /\ dec.ret = dec.nDecoded
    /\ RunBeyondMaxSize => (dec.pc = "done" /\ dec.ret = -1)

\* C6, the case: after some tokens were decoded, a match that does not fit in
\* the room left has made the call return -1
BeyondMaxSizeSeen ==
    /\ dec.tok.hasMatch /\ RunBeyondMaxSize
    /\ dec.nDecoded > 0 /\ dec.nBlockMaxSize > 0
    /\ dec.pc = "done" /\ dec.ret = -1

\* the bytes the call has decoded, when it has returned a size
Decoded == MemReadN(dec.pOutData, dec.fill, dec.nOutDataOffset, dec.ret)

\* the call has returned with room for at least n bytes
ReturnedWithRoom(n) == dec.pc = "done" /\ dec.nBlockMaxSize >= n

\* C11, as stated: the block 17 61 01 00 followed by a last token of no
\* literal decodes to the 8 bytes "aaaaaaaa".
Token17DecodesA8 ==
    (dec.inBlock = BlockA8Nibble7 /\ ReturnedWithRoom(8))
        => (dec.ret = 8 /\ Decoded = <<97, 97, 97, 97, 97, 97, 97, 97>>)

\* C11: the token of one literal and a match of length 7 is 13 (hex), and the
\* block 13 61 01 00 followed by a last token of no literal decodes to the
\* 8 bytes "aaaaaaaa".
Token13DecodesA8 ==
    /\ Token(1, 7 - MIN_MATCH_SIZE) = 19
    /\ (dec.inBlock = BlockA8 /\ ReturnedWithRoom(8))
          => (dec.ret = 8 /\ Decoded = <<97, 97, 97, 97, 97, 97, 97, 97>>)

\* C11, the case: the block has been decoded after previously decompressed
\* bytes
Token13Seen ==
    /\ dec.inBlock = BlockA8 /\ ReturnedWithRoom(8)
    /\ dec.nOutDataOffset > 0
    /\ dec.ret = 8

(***************************************************************************)
(* A decoder that copies byte by byte, to compare the block decoder with.  *)
(* Its buffer is the sequence out of the bytes from pOutData on, its state *)
(* the index p in the block and the index cur in the buffer.               *)
(***************************************************************************)
\* out[dst + i] = out[dst + i - (dst - src)] for i = 0 .. n - 1, in this order
RECURSIVE ByteCopy(_, _, _, _)
ByteCopy(out, dst, src, n) ==
    IF n = 0 THEN out
    ELSE ByteCopy([out EXCEPT ![dst + 1] = out[src + 1]], dst + 1, src + 1, n - 1)

\* the nibble n of a token, extended by the bytes from index p on when it is 15
ByteRun(inBlock, p, n) ==
    IF n = 15 THEN RunLength(inBlock, p, n) ELSE [p |-> p, n |-> n, cut |-> FALSE]

RECURSIVE ByteDecode(_, _, _, _, _)
ByteDecode(inBlock, out, p, cur, start) ==
    IF p >= Len(inBlock) THEN [ret |-> cur - start, out |-> out]
    ELSE LET token == inBlock[p + 1]
             lit == ByteRun(inBlock, p + 1, token \div 16)
             p1 == lit.p + lit.n
             cur1 == cur + lit.n
         IN  IF lit.n # 0 /\ (p1 > Len(inBlock) \/ cur1 > Len(out))
             THEN [ret |-> -1, out |-> out]
             ELSE LET out1 == [k \in 1..Len(out) |->
                                 IF k > cur /\ k <= cur1 THEN inBlock[lit.p + k - cur]
                                 ELSE out[k]]
                  IN  IF p1 + 1 < Len(inBlock)
                      THEN LET nMatchOffset == inBlock[p1 + 1] + 256 * inBlock[p1 + 2]
                               run == ByteRun(inBlock, p1 + 2, token % 16)
                               nMatchLen == run.n + MIN_MATCH_SIZE
                           IN  IF cur1 - nMatchOffset < 0 \/ cur1 + nMatchLen > Len(out)
                               THEN [ret |-> -1, out |-> out1]
                               ELSE ByteDecode(inBlock,
                                               ByteCopy(out1, cur1, cur1 - nMatchOffset,
                                                        nMatchLen),
                                               run.p, cur1 + nMatchLen, start)
                      ELSE ByteDecode(inBlock, out1, p1, cur1, start)

\* the call of the byte-by-byte decoder on the arguments of the call of the
\* block decoder that dec records: the buffer holds the previously
\* decompressed bytes and then what the memory held
ByteDecoded ==
    ByteDecode(dec.inBlock,
               [k \in 1..(dec.nOutDataOffset + dec.nBlockMaxSize) |->
                   MemRead(PriorData(dec.nOutDataOffset), dec.fill, k - 1)],
               0, dec.nOutDataOffset, dec.nOutDataOffset)

\* the block decoder has returned what r holds: the same value and, when it
\* is a size, the same decoded bytes
SameAsDecoded(r) ==
    /\ dec.ret = r.ret
    /\ dec.ret > 0 =>
          Decoded = SubSeq(r.out, dec.nOutDataOffset + 1, dec.nOutDataOffset + dec.ret)

\* C16: for every block, every previously decompressed data and every
\* nBlockMaxSize, the block decoder returns the value, and when it is a size
\* leaves the decoded bytes, of a decoder that copies the literals byte by
\* byte and every match as out[p + i] = out[p + i - offset], i increasing.
FastEqualsByteByByte == dec.pc = "done" => SameAsDecoded(ByteDecoded)

\* C17: every byte the block decoder reads from the block is one of its
\* nBlockSize bytes (inHi is the end of the bytes read), every byte it writes
\* is one of the nBlockMaxSize bytes from pOutData + nOutDataOffset on (wrLo,
\* wrHi), and every byte a match reads is between pOutData and the end of
\* these nBlockMaxSize bytes (srcLo, srcHi); the copies of 16 and of 20 bytes
\* of the fast loop and the copies 16 bytes at a time are among them.
ExpandMemorySafe ==
    /\ dec.inHi <= dec.nBlockSize
    /\ dec.wrLo >= dec.nOutDataOffset
    /\ dec.wrHi <= pOutDataEnd(dec)
    /\ dec.srcLo >= 0
    /\ dec.srcHi <= pOutDataEnd(dec)

\* C17, the case: copies of the fast loop have read block bytes and written
\* bytes beyond those of the tokens decoded so far, and a match has read
\* bytes beyond them
OvercopySeen ==
    /\ dec.pc = "fast"
    /\ dec.inHi > dec.pInBlock
    /\ dec.wrHi > dec.pCurOutData
    /\ dec.srcHi > dec.pCurOutData - dec.tok.nMatchOffset
    /\ dec.tok.hasMatch /\ dec.tok.nMatchOffset >= 8

\* the call has returned, with room for n bytes, from the block b
DecodedBlock(b, n) == dec.inBlock = b /\ ReturnedWithRoom(n)

\* C18: a run length n is encoded as the nibble min(n, 15) and, from 15 on,
\* 1 + (n - 15) \div 255 bytes (none below 15): bytes 255 while 255 or more
\* remain and then the remainder; the decoder reads n back from them, as the
\* number of literals of a token, and as the length of a match less
\* MIN_MATCH_SIZE.
RunRoundTrip ==
    \A n \in RunValues :
        /\ Len(RunBytes(n)) = IF n < 15 THEN 0 ELSE 1 + (n - 15) \div 255
        /\ DecodedBlock(LiteralRunBlock(n), n)
              => /\ dec.ret = n
                 /\ dec.tok.nLiterals = n /\ ~dec.tok.litCut
                 /\ dec.pInBlock = dec.nBlockSize
        /\ DecodedBlock(MatchRunBlock(n), n + 5)
              => /\ dec.ret = 1 + n + MIN_MATCH_SIZE
                 /\ dec.nDecoded = dec.ret
                 /\ dec.pInBlock = dec.nBlockSize

\* C18, the case: a match whose length takes the bytes FF FF 00 has been
\* decoded
RunRoundTripSeen ==
    /\ DecodedBlock(MatchRunBlock(525), 530)
    /\ SubSeq(dec.inBlock, 5, 7) = <<255, 255, 0>>
    /\ dec.ret = 530

(***************************************************************************)
(* SpecExpandFair: the call of SpecExpand in a thread that keeps running,   *)
(* so that the decoder goes on as long as it has a step to take.           *)
(***************************************************************************)
\* Weak fairness of each of the four steps.  Every iteration of a loop
\* changes nIter, so that a loop's step is enabled exactly when its guard
\* holds; for the two loops WF_vars is written out with the guard in the
\* place of ENABLED.
ExpandFairness ==
    /\ WF_vars(FastLoopExit)
    /\ WF_vars(ExpandReturn)
    /\ ([]<>~(dec.pc = "fast" /\ FastCond(dec)) \/ []<><<FastLoop>>_vars)
    /\ ([]<>~(dec.pc = "slow" /\ SlowCond(dec)) \/ []<><<SlowLoop>>_vars)

SpecExpandFair == InitExpand /\ [][NextExpand]_vars /\ ExpandFairness

\* an iteration of the fast loop or of the slow loop
LoopIteration == FastLoop \/ SlowLoop

\* the steps of the copy of a match of n bytes that has stored wr bytes: 16
\* bytes a step, or 20 in one step, or 4 bytes a step and then 1 byte a step
CopySteps(n, wr) ==
    IF wr = n THEN (n \div 4) + (n % 4)
    ELSE IF wr = 20 /\ n <= 18 THEN 1
    ELSE (wr + 15) \div 16

\* C24: lz4ultra_decompressor_expand_block_lz4 returns on every block.  Every
\* iteration of the fast loop and of the slow loop moves pInBlock forward by
\* at least one byte and never beyond the end of the block, so that there
\* are at most nBlockSize iterations; the bytes of a run length are read up
\* to the end of the block at most; the copy of a match takes at most as
\* many steps as the match is long; and the call does return.
ExpandTerminates ==
    /\ [](dec.pInBlock <= dec.nBlockSize /\ dec.nIter <= dec.pInBlock)
    /\ [](CopySteps(dec.tok.nMatchLen, dec.tok.matchWr) <= dec.tok.nMatchLen)
    /\ [][LoopIteration => dec'.pInBlock > dec.pInBlock]_vars
    /\ <>(dec.pc = "done")

\* C24, the case: the call has returned the size of the block TailA after
\* the four iterations of its four tokens, two of them with a run length
\* that takes another byte, three with a match copied
ExpandTerminatesSeen ==
    /\ dec.pc = "done" /\ dec.inBlock = TailA
    /\ dec.nIter = 4
    /\ dec.pInBlock = dec.nBlockSize
    /\ dec.ret = 49

(***************************************************************************)
(* The inputs of the drivers: command lines and files.                     *)
(***************************************************************************)
MaxArgs == 4
MaxDataLen == 3

Args == {"-d", "-z", "-c", "-v", "-r", "f1", "f2"}

\* the command lines of at most MaxArgs arguments; the first two file names
\* are not the same file
CommandLines ==
    {a \in SeqsUpTo(Args, MaxArgs) :
        ~UsageError(ParseArgs(NoMain, a)) =>
            ParseArgs(NoMain, a).pszInFilename # ParseArgs(NoMain, a).pszOutFilename}

\* the accepted command lines on f1 and f2, one for each choice of options
FlagLines == {f1 \o f2 \o f3 : f1 \in {<< >>, <<"-c">>, <<"-d">>},
                               f2 \in {<< >>, <<"-v">>},
                               f3 \in {<< >>, <<"-r">>}}
OptionLines == {f \o <<"f1", "f2">> : f \in FlagLines}

File(data) == [exists |-> TRUE, data |-> Pages(data)]

\* a file that is there before the program runs
Stale == File(<<1, 2, 3>>)

\* data to compress: short sequences of two letters, a run and a period of
\* MaxParseLen bytes, and 18 different bytes followed by a run
DataBytes == {97, 98}
SmallData ==
    SeqsUpTo(DataBytes, MaxDataLen)
        \cup {[i \in 1..5 |-> 97], [i \in 1..MaxParseLen |-> 97],
              [i \in 1..MaxParseLen |-> 97 + (i % 2)],
              [i \in 1..18 |-> 64 + i] \o [i \in 1..10 |-> 122]}

\* data of one block less one byte, one block, one block and one byte, one
\* block and five bytes
BigSizes == {BLOCK_SIZE - 1, BLOCK_SIZE, BLOCK_SIZE + 1, BLOCK_SIZE + 5}
BigData == {[i \in 1..n |-> 97] : n \in BigSizes}

\* a block of a frame: the size and the payload; with bit 31 of the size set
FrameBlock(payload) == BlockSizeBytes(Len(payload)) \o payload
StoredBlock(payload) == [BlockSizeBytes(Len(payload)) EXCEPT ![4] = @ + 128] \o payload
FrameEnd == <<0, 0, 0, 0>>

\* the header with the code of 4 Mb blocks, with another magic number, and
\* without its last byte
Header70 == [cHeader EXCEPT ![6] = 7 * 16]
HeaderBadMagic == [cHeader EXCEPT ![1] = 5]
HeaderShort == SubSeq(cHeader, 1, 6)

\* payloads: two literals; one literal and a match of 5 at offset 1; a match
\* of 4 at offset 2, into the previous block; a token of 3 literals with one;
\* a match at offset 4 with nothing before it; no literal
LitAB == <<32, 97, 98>>
RunA == <<17, 97, 1, 0, 0>>
BackAB == <<0, 2, 0, 0>>
CutLit == <<48, 97>>
BackNone == <<0, 4, 0, 0>>
Nothing == <<0>>

\* the frames whose blocks do not depend on bytes that were never written
Frames ==
    { cHeader \o FrameEnd,
      cHeader \o FrameBlock(LitAB) \o FrameEnd,
      cHeader \o StoredBlock(<<97, 98>>) \o FrameEnd,
      cHeader \o FrameBlock(RunA) \o FrameEnd,
      cHeader \o FrameBlock(LitAB) \o FrameBlock(BackAB) \o FrameEnd,
      cHeader \o FrameBlock(Nothing) \o FrameEnd,
      cHeader \o FrameBlock(LitAB),
      cHeader \o BlockSizeBytes(5) \o LitAB,
      cHeader \o FrameBlock(CutLit) \o FrameEnd,
      cHeader }

\* files that are not a frame the program accepts
NotFrames ==
    { Header70 \o FrameEnd,
      HeaderBadMagic \o FrameEnd,
      HeaderShort,
      Header70 \o FrameBlock(LitAB) \o FrameEnd }

\* raw blocks with their two-byte end marker, and files too short for one
RawBlocks == { <<0, 0>>, LitAB \o <<0, 0>>, RunA \o <<0, 0>>, CutLit \o <<0, 0>>,
               <<0>>, << >> }

Streams == Frames \cup NotFrames \cup RawBlocks
                  \cup {cHeader \o FrameBlock(BackNone) \o FrameEnd}

\* the command lines that are run on the data of BigData
BigLines == {<<"f1", "f2">>, <<"-r", "f1", "f2">>, <<"-c", "f1", "f2">>}

\* a block of BLOCK_SIZE + 1 bytes: one token of BLOCK_SIZE - 256 literals
OverBlock == LiteralRunBlock(BLOCK_SIZE - 256)

\* the streams that -d is run on with a block of BLOCK_SIZE + 1 bytes,
\* compressed and stored, and with a stored block of BLOCK_SIZE bytes; the
\* stream that -d -r is run on
BigStreams(a) ==
    IF a = <<"-d", "f1", "f2">>
    THEN { cHeader \o FrameBlock(OverBlock) \o FrameEnd,
           cHeader \o StoredBlock(Repeat(97, BLOCK_SIZE + 1)) \o FrameEnd,
           cHeader \o StoredBlock(Repeat(97, BLOCK_SIZE)) \o FrameEnd }
    ELSE IF a = <<"-d", "-r", "f1", "f2">> THEN { OverBlock \o <<0, 0>> }
    ELSE {}

\* the file system before the program runs command line a: every content of
\* the input file for the command lines of OptionLines, a few for the others
InputFiles(a) ==
    IF a \in OptionLines
    THEN {NoFile} \cup {File(d) : d \in SmallData \cup Streams}
                  \cup (IF a \in BigLines THEN {File(d) : d \in BigData} ELSE {})
                  \cup {File(d) : d \in BigStreams(a)}
    ELSE {NoFile, File([i \in 1..5 |-> 97]), File(cHeader \o FrameBlock(RunA) \o FrameEnd)}

FileSystems(a) ==
    LET m == ParseArgs(NoMain, a)
    IN  IF UsageError(m) THEN {NoFiles}
        ELSE {[n \in DOMAIN NoFiles |-> IF n = m.pszInFilename THEN in
                                       ELSE IF n = m.pszOutFilename THEN out
                                       ELSE NoFile] :
                in \in InputFiles(a), out \in {NoFile, Stale}}

(***************************************************************************)
(* Spec: one run of the program, on every command line of CommandLines and *)
(* of OptionLines.                                                         *)
(***************************************************************************)
Init ==
    /\ argv \in CommandLines \cup OptionLines
    /\ fs \in FileSystems(argv)
    /\ pc = "main"
    /\ main = NoMain
    /\ comp = NoCompress
    /\ decomp = NoExpand
    /\ compar = NoExpand
    /\ exit = -1
    /\ dec = NoDec

Next ==
    \/ MainArgs
    \/ CompressOpen \/ CompressBlock \/ CompressFinish \/ MainCompressed
    \/ CompareOpen \/ CompareBlock \/ CompareFinish \/ MainCompared
    \/ DecompressOpen \/ DecompressBlock \/ DecompressFinish \/ MainDecompressed

Spec == Init /\ [][Next]_vars

(***************************************************************************)
(* Claims about one run of the program.                                    *)
(***************************************************************************)
\* main ran a step that returned 100, or rejected the command line
StepFailed ==
    \/ UsageError(main)
    \/ main.cCommand = "z" /\ (comp.ret = 100 \/ compar.ret = 100)
    \/ main.cCommand = "d" /\ decomp.ret = 100

\* C2: when the process has exited, its status is 100 if the command line was
\* rejected or a step main ran (compress, compare, decompress) returned 100,
\* and 0 if every step it ran returned 0.
ExitStatusTellsFailure ==
    pc = "exited" => exit = (IF StepFailed THEN 100 ELSE 0)

\* a finished call of lz4ultra_compress in raw mode on an existing input file
RawCompressDone ==
    /\ pc = "compress_ret"
    /\ HasOpt(comp.nOptions, OPT_RAW)
    /\ fs[comp.pszInFilename].exists

RawTooLargeError == comp.stderr = "error: raw blocks can only be used with files <= 64 Kb"
RawUncompressedError ==
    comp.stderr = "error: data is incompressible, raw blocks only support compressed data"

FramedBlocksWritten ==
    /\ pc \in {"compress_loop", "compress_ret"}
    /\ ~HasOpt(comp.nOptions, OPT_RAW)
    /\ ~comp.bError
    /\ comp.nBlocks > 0

\* the bytes of the block written last: its size word and its payload
LastPayloadSize == IF comp.nOutDataSize >= 0 THEN comp.nOutDataSize ELSE comp.nInDataSize
LastBlockWritten ==
    LET out == FileData(fs[comp.pszOutFilename])
        end == IF pc = "compress_ret" THEN Len(out) - 4 ELSE Len(out)
    IN  SubSeq(out, end - LastPayloadSize - 3, end)
LastBlockRead ==
    SubSeq(FileData(fs[comp.pszInFilename]),
           comp.nOriginalSize - comp.nInDataSize + 1, comp.nOriginalSize)

\* C9: in framed mode the output is at most the input plus 7 bytes of header,
\* 4 bytes for each block written and 4 bytes of footer; the payload of a
\* block is never longer than the bytes it was read from, and a block that
\* did not compress is written as its size with bit 31 set followed by the
\* source bytes.
BoundedExpansion ==
    FramedBlocksWritten =>
        /\ FileSize(fs[comp.pszOutFilename])
              <= comp.nOriginalSize + 7 + 4 * comp.nBlocks
                    + (IF pc = "compress_ret" THEN 4 ELSE 0)
        /\ pc = "compress_ret" =>
              comp.nOriginalSize = FileSize(fs[comp.pszInFilename])
        /\ LastPayloadSize <= comp.nInDataSize
        /\ Len(LastBlockWritten) = 4 + LastPayloadSize
        /\ BlockSizeValue(SubSeq(LastBlockWritten, 1, 4))
              = [hi |-> comp.nOutDataSize < 0, lo |-> LastPayloadSize]
        /\ comp.nOutDataSize < 0 =>
              SubSeq(LastBlockWritten, 5, 4 + LastPayloadSize) = LastBlockRead

\* C9, the case: a frame of two blocks is complete, and its last block is one
\* that did not compress
StoredBlockSeen ==
    /\ FramedBlocksWritten
    /\ pc = "compress_ret"
    /\ comp.nBlocks = 2
    /\ comp.nOutDataSize < 0

\* the last n bytes of the first pos bytes of seq
BytesBefore(seq, pos, n) == SubSeq(seq, pos - n + 1, pos)

\* a step of the loop of lz4ultra_compress that has called the block
\* compressor after a previous block: the bytes of pInData before the block
\* just read are the block read before it
CompressWindowStep ==
    (/\ pc = "compress_loop" /\ pc' = "compress_loop"
     /\ comp.nPreviousBlockSize > 0
     /\ comp'.f_in.pos > comp.f_in.pos
     /\ ~HasOpt(comp.nOptions, OPT_RAW))
        => MemReadN(comp'.pInData, 0, BLOCK_SIZE - comp.nPreviousBlockSize,
                    comp.nPreviousBlockSize)
              = BytesBefore(FileData(fs[comp.pszInFilename]), comp.f_in.pos,
                            comp.nPreviousBlockSize)

\* a step of the loop of lz4ultra_decompress that has decoded a block after a
\* previous block: the bytes of pOutData before pOutData + BLOCK_SIZE are the
\* block decoded before it, which are the last bytes written to the output
DecompressWindowStep ==
    (/\ pc = "decompress_loop" /\ pc' \in {"decompress_loop", "decompress_done"}
     /\ decomp.nPrevDecompressedSize > 0
     /\ decomp'.pInFile.pos > decomp.pInFile.pos + 4
     /\ ~decomp'.bOverflow)
        => MemReadN(decomp'.pOutData, decomp.fill,
                    BLOCK_SIZE - decomp.nPrevDecompressedSize,
                    decomp.nPrevDecompressedSize)
              = BytesBefore(FileData(fs[decomp.pszOutFilename]),
                            FileSize(fs[decomp.pszOutFilename]),
                            decomp.nPrevDecompressedSize)

\* C19: at every call of the block compressor in lz4ultra_compress with
\* nPreviousBlockSize > 0, the nPreviousBlockSize bytes from pInData +
\* BLOCK_SIZE - nPreviousBlockSize on are the previous block of the input;
\* at every call of the block decoder in lz4ultra_decompress after a decoded
\* block, the bytes of that block are those before pOutData + BLOCK_SIZE.
SlidingWindow == [][CompressWindowStep /\ DecompressWindowStep]_vars

\* C19, the case: a second block, that copies from the first, has been
\* decoded after a first block shorter than BLOCK_SIZE
SlidingWindowSeen ==
    /\ pc = "decompress_loop"
    /\ decomp.nPrevDecompressedSize > 0
    /\ decomp.nOriginalSize > decomp.nPrevDecompressedSize
    /\ decomp.nOriginalSize < BLOCK_SIZE
    /\ FileData(fs[decomp.pszOutFilename]) = <<97, 98, 97, 98, 97, 98>>

\* C20: when lz4ultra_decompress has decoded a stream one of whose matches
\* copies from its own position on (offset 0), or from bytes of the window
\* before those of the block decoded last, which were never written, it
\* returns 100.
UnwrittenSourceRejected ==
    (pc = "decompress_ret" /\ decomp.bUnwritten) => decomp.ret = 100

\* C21: in lz4ultra_decompress and lz4ultra_compare no read of a block stores
\* more than BLOCK_SIZE bytes into pInBlock and no copy of an uncompressed
\* block stores more than BLOCK_SIZE bytes at pOutData + BLOCK_SIZE, in
\* framed mode and in raw mode.
BlockFitsBuffers == ~decomp.bOverflow /\ ~compar.bOverflow

\* C22: in framed mode lz4ultra_decompress returns 0 only when it has read
\* the end mark, a block header of size 0; on a stream that ends before it,
\* in a block header or in a block, it returns 100.
EndMarkOrError ==
    (pc = "decompress_ret" /\ ~HasOpt(decomp.nOptions, OPT_RAW) /\ decomp.ret = 0)
        => decomp.bEndMark

\* C23: when lz4ultra_compress has printed the summary of -v, in framed mode
\* and in raw mode, the compressed size it has printed, nCompressedSize, is
\* the number of bytes it has written to the output file.
ReportedSizeIsWritten ==
    (pc = "compress_ret" /\ comp.ret = 0 /\ HasOpt(comp.nOptions, OPT_VERBOSE))
        => comp.nCompressedSize = FileSize(fs[comp.pszOutFilename])

\* C25: the summary of -v never divides by a number of tokens that is 0: the
\* process is not stopped by the division, and when lz4ultra_compress has
\* printed the summary and returned 0 the number of tokens it divided by was
\* not 0, whatever the input, the empty input included.
SummaryDividesByTokens ==
    /\ ~(pc = "killed" /\ exit = 128 + 8)
    /\ (pc = "compress_ret" /\ comp.ret = 0 /\ HasOpt(comp.nOptions, OPT_VERBOSE))
          => comp.nCommands # 0

(***************************************************************************)
(* SpecRoundTrip: the program compresses f1 into f2, and when that has     *)
(* succeeded it is run again, with the same options, to decompress f2 into *)
(* f3.                                                                     *)
(***************************************************************************)
CompressLines == {f1 \o f2 \o <<"f1", "f2">> : f1 \in {<< >>, <<"-v">>},
                                              f2 \in {<< >>, <<"-r">>}}

InitRoundTrip ==
    /\ argv \in CompressLines
    /\ fs \in {[f1 |-> File(d), f2 |-> out, f3 |-> NoFile] :
                  d \in SmallData \cup BigData, out \in {NoFile, Stale}}
    /\ pc = "main"
    /\ main = NoMain
    /\ comp = NoCompress
    /\ decomp = NoExpand
    /\ compar = NoExpand
    /\ exit = -1
    /\ dec = NoDec

\* the second run of the program: -d, the options of the first run, f2 f3
RunAgain ==
    /\ pc = "exited"
    /\ main.cCommand = "z" /\ comp.ret = 0
    /\ argv' = <<"-d">> \o SubSeq(argv, 1, Len(argv) - 2) \o <<"f2", "f3">>
    /\ pc' = "main"
    /\ main' = NoMain
    /\ exit' = -1
    /\ UNCHANGED <<dec, fs, comp, decomp, compar>>

NextRoundTrip ==
    \/ MainArgs
    \/ CompressOpen \/ CompressBlock \/ CompressFinish \/ MainCompressed
    \/ RunAgain
    \/ DecompressOpen \/ DecompressBlock \/ DecompressFinish \/ MainDecompressed

SpecRoundTrip == InitRoundTrip /\ [][NextRoundTrip]_vars

\* the second run has ended
DecompressedAgain == pc \in {"exited", "killed"} /\ main.cCommand = "d"

EmptyFrame40 == <<4, 34, 77, 24, 64, 64, 192, 0, 0, 0, 0>>
EmptyFrame70 == <<4, 34, 77, 24, 64, 112, 192, 0, 0, 0, 0>>

\* an empty file has been compressed without options
EmptyCompressed ==
    /\ fs["f1"] = File(<< >>)
    /\ argv \in {<<"f1", "f2">>, <<"-d", "f2", "f3">>}
    /\ pc = "exited"

DecompressLines == {<<"-d">> \o f \o <<"f2", "f3">> : f \in {<< >>, <<"-r">>}}

\* what the streams of Streams decode to, and other files
Originals == { << >>, <<97>>, <<97, 98>>, <<97, 98, 99>>,
               <<97, 97, 97, 97, 97, 97>>, <<97, 98, 97, 98, 97, 98>> }

InitCompare ==
    /\ argv \in DecompressLines
    /\ fs \in {[f1 |-> orig, f2 |-> File(d), f3 |-> out] :
                  orig \in {NoFile} \cup {File(o) : o \in Originals},
                  d \in Streams, out \in {NoFile, Stale}}
    /\ pc = "main"
    /\ main = NoMain
    /\ comp = NoCompress
    /\ decomp = NoExpand
    /\ compar = NoExpand
    /\ exit = -1
    /\ dec = NoDec

\* the call lz4ultra_compare("f2", "f1", nOptions) after the program's run
CompareCall ==
    /\ pc = "exited"
    /\ compar.ret = -1
    /\ compar' = CompareEntry("f2", "f1", main.nOptions)
    /\ pc' = "compare"
    /\ UNCHANGED <<dec, argv, fs, main, comp, decomp, exit>>

NextCompare ==
    \/ MainArgs
    \/ DecompressOpen \/ DecompressBlock \/ DecompressFinish \/ MainDecompressed
    \/ CompareCall
    \/ CompareOpen \/ CompareBlock \/ CompareFinish

SpecCompare == InitCompare /\ [][NextCompare]_vars

\* lz4ultra_compare has returned, after a decompression that succeeded of
\* the same stream: f3 holds the bytes the stream decodes to
ComparedDecoded == pc = "compare_ret" /\ exit = 0 /\ fs["f1"].exists

\* C3: lz4ultra_compare returns 0 if and only if the bytes the stream decodes
\* to are the contents of the original file, the same bytes and as many.
CompareIffIdentical ==
    ComparedDecoded => (compar.ret = 0 <=> fs["f3"].data = fs["f1"].data)

\* the file to decompress is there and does not start with the seven bytes
\* 04 22 4D 18 40 40 C0, and the options are those of framed mode
HeaderRejected ==
    /\ ~HasOpt(main.nOptions, OPT_RAW)
    /\ pc \notin {"main", "decompress"}
    /\ \/ FileSize(fs["f2"]) < 7
       \/ SubSeq(FileData(fs["f2"]), 1, 7) # <<4, 34, 77, 24, 64, 64, 192>>

\* C7: in framed mode, when the first seven bytes of the input are missing or
\* are not the accepted header, lz4ultra_decompress returns 100, which is the
\* exit status, without opening its output file, which stays as it was, and
\* lz4ultra_compare returns 100 without opening the original.
HeaderCheckedFirst ==
    HeaderRejected
        => /\ ~decomp.bOutOpened /\ fs["f3"] \in {NoFile, Stale}
           /\ pc = "decompress_ret" => decomp.ret = 100
           /\ pc \in {"exited", "compare", "compare_loop", "compare_done", "compare_ret"}
                 => exit = 100
           /\ ~compar.bOutOpened
           /\ pc \notin {"compare_loop", "compare_done"}
           /\ pc = "compare_ret" => compar.ret = 100

\* C7, the case: a file with the header of another block size, and blocks
\* after it, has been rejected by both, and the output file that was there
\* is untouched
HeaderRejectedSeen ==
    /\ HeaderRejected
    /\ FileSize(fs["f2"]) > 11
    /\ SubSeq(FileData(fs["f2"]), 1, 4) = <<4, 34, 77, 24>>
    /\ pc = "compare_ret" /\ compar.ret = 100 /\ exit = 100
    /\ fs["f3"] = Stale

\* the index, from 0, of the first byte at which a and b differ, which is the
\* length of the shorter when it is the first bytes of the other
FirstDifference(a, b) ==
    LET n == Min(Len(a), Len(b))
        same == {k \in 0..n : SubSeq(a, 1, k) = SubSeq(b, 1, k)}
    IN  CHOOSE k \in same : \A j \in same : j <= k

\* lz4ultra_compare has printed "error comparing compressed file ... starting
\* at nKnownGoodSize" for a stream that decodes to other bytes than the
\* original's
DifferenceReported ==
    /\ ComparedDecoded
    /\ compar.nDecompressionError = 0 /\ compar.bComparisonError
    /\ fs["f3"].data # fs["f1"].data

\* C14: the offset lz4ultra_compare prints when the decoded stream and the
\* original differ is the index of the first byte at which they differ, or
\* the length of the shorter when it is the first bytes of the other.
ReportsFirstDifference ==
    DifferenceReported
        => compar.nKnownGoodSize
              = FirstDifference(FileData(fs["f3"]), FileData(fs["f1"]))

(***************************************************************************)
(* SpecFaults: one run of the program where the C library may fail: the    *)
(* output is a directory, a full device or a file with room for 11 bytes,  *)
(* or the input is a directory.                                            *)
(***************************************************************************)
FaultNames == {"f1", "f2", "f3", ".", "/dev/full", "/quota11/f"}

\* compression of f1 and decompression of f2 into each output, and a
\* directory as the input
FaultLines ==
    {f \o <<"f1", out>> : f \in {<< >>, <<"-v">>, <<"-r">>},
                          out \in {"f2", ".", "/dev/full", "/quota11/f"}}
        \cup {f \o <<"f2", out>> : f \in {<<"-d">>, <<"-d", "-r">>},
                                   out \in {"f3", ".", "/dev/full", "/quota11/f"}}
        \cup {<<".", "f2">>, <<"-d", ".", "f3">>}

\* the contents of the input file of command line a: data or a stream, and
\* two blocks of data for the compression of f1 into f2
FaultInputs(a) ==
    IF ParseArgs(NoMain, a).cCommand = "d" THEN Streams
    ELSE IF a = <<"f1", "f2">> THEN SmallData \cup {[i \in 1..(BLOCK_SIZE + 5) |-> 97]}
    ELSE SmallData

\* the file system before the program runs command line a: the directory and
\* the full device are there, the input file holds data or a stream
FaultFileSystems(a) ==
    {[n \in FaultNames |-> IF n \in {".", "/dev/full"} THEN File(<< >>)
                           ELSE IF n = ParseArgs(NoMain, a).pszInFilename THEN File(d)
                           ELSE NoFile] :
        d \in FaultInputs(a)}

InitFaults ==
    /\ argv \in FaultLines
    /\ fs \in FaultFileSystems(argv)
    /\ pc = "main"
    /\ main = NoMain
    /\ comp = NoCompress
    /\ decomp = NoExpand
    /\ compar = NoExpand
    /\ exit = -1
    /\ dec = NoDec

NextFaults ==
    \/ MainArgs
    \/ CompressOpen \/ CompressBlock \/ CompressFinish \/ MainCompressed
    \/ DecompressOpen \/ DecompressBlock \/ DecompressFinish \/ MainDecompressed

SpecFaults == InitFaults /\ [][NextFaults]_vars

(***************************************************************************)
(* Claims about runs where the C library may fail.                         *)
(***************************************************************************)
\* lz4ultra_compress is running, or has returned, without -r
FramedCompress ==
    /\ pc \in {"compress", "compress_loop", "compress_ret"}
    /\ main.cCommand = "z"
    /\ ~HasOpt(comp.nOptions, OPT_RAW)

\* the bytes of the output file of lz4ultra_compress
OutData == FileData(fs[comp.pszOutFilename])

\* the bytes a step has added to the output file, when it has removed none
Appended == SubSeq(OutData', Len(OutData) + 1, Len(OutData'))
OnlyAppended == SubSeq(OutData', 1, Len(OutData)) = OutData

\* a is p, or when bCut the first bytes of p and not all of them
WholeOrCut(a, p, bCut) ==
    IF bCut THEN Len(a) < Len(p) /\ a = SubSeq(p, 1, Len(a)) ELSE a = p

\* a is one block: four bytes whose little-endian value, bit 31 apart, is
\* the number of bytes that follow, which is not 0
OneBlock(a) ==
    /\ Len(a) > 4
    /\ BlockSizeValue(SubSeq(a, 1, 4)).lo = Len(a) - 4

\* a is the first bytes of a block and not the whole block
CutBlock(a) ==
    Len(a) < 4 \/ BlockSizeValue(SubSeq(a, 1, 4)).lo > Len(a) - 4

\* the step of the loop has taken the next nInDataSize bytes of the source,
\* all the bytes before them having been written
NextOfSource ==
    /\ comp.nOriginalSize = comp.f_in.pos
    /\ comp'.f_in.pos = comp.f_in.pos + comp'.nInDataSize
    /\ comp'.nOriginalSize = comp'.f_in.pos

\* what one step of a framed compression writes to the output file
FramedStep ==
    IF pc = "compress"
    THEN IF pc' = "compress_loop"
         THEN WholeOrCut(OutData', cHeader, comp'.bError)
         ELSE fs' = fs
    ELSE IF pc = "compress_loop" /\ pc' = "compress_loop"
    THEN /\ ~comp.bError
         /\ OnlyAppended
         /\ IF comp'.bError THEN CutBlock(Appended)
            ELSE IF comp'.nBlocks = comp.nBlocks THEN Appended = << >>
            ELSE /\ comp'.nBlocks = comp.nBlocks + 1
                 /\ OneBlock(Appended)
                 /\ NextOfSource
    ELSE IF pc = "compress_loop" /\ pc' = "compress_ret"
    THEN /\ OnlyAppended
         /\ IF comp.bError THEN Appended = << >> /\ comp'.ret = 100
            ELSE /\ WholeOrCut(Appended, <<0, 0, 0, 0>>, comp'.ret # 0)
                 /\ comp.f_in.eof
    ELSE IF pc = "compress_ret" THEN fs' = fs
    ELSE pc' = "killed"

\* C12: in every run of lz4ultra_compress without -r the output file receives
\* the 7 bytes of the frame header first; then each step of the loop adds
\* nothing, or one block (a 4-byte little-endian size followed by that many
\* payload bytes) for the next bytes of the source; then, once the source is
\* at its end and no write has failed, the 4 zero bytes of the footer; once
\* the function has returned nothing is written.  A write that fails leaves
\* the first bytes of what it was writing, and nothing follows them.
FramedOrder == [][FramedCompress => FramedStep]_vars

\* C12, the case: a framed compression has written the header, two blocks
\* and the footer, and returned 0
FramedOrderSeen ==
    /\ FramedCompress /\ pc = "compress_ret"
    /\ comp.ret = 0 /\ comp.nBlocks = 2
    /\ SubSeq(OutData, 1, 7) = cHeader
    /\ SubSeq(OutData, Len(OutData) - 3, Len(OutData)) = <<0, 0, 0, 0>>

\* C13: when lz4ultra_compress or lz4ultra_decompress has returned after one
\* of its reads or writes failed, the value returned is 100.
IoFailureReturns100 ==
    /\ (pc = "compress_ret" /\ comp.bIoFailed) => comp.ret = 100
    /\ (pc = "decompress_ret" /\ decomp.bIoFailed) => decomp.ret = 100

\* C15: when lz4ultra_compress, lz4ultra_decompress or lz4ultra_compare has
\* returned, every stream it opened is closed and every buffer it allocated
\* is freed.
ResourcesReleased ==
    /\ pc = "compress_ret" => comp.held = {}
    /\ pc = "decompress_ret" => decomp.held = {}
    /\ pc = "compare_ret" => compar.held = {}

====
